---------------------------- MODULE Spec2Model ----------------------------
(***************************************************************************)
(* Sports-events calendar: the filter engine (App.js applyFilters), the    *)
(* month / week / day projections (CalendarGrid, DayCell) and the list     *)
(* view's sort state (ListView handleSort), as state machines over the     *)
(* React state the components hold.                                        *)
(*                                                                         *)
(* Strings are sequences of character codes (65..90 upper case, 97..122    *)
(* lower case).  Instants are whole hours since 1970-01-01T00:00Z; the     *)
(* browser's zone is a fixed offset tzOffset (local = UTC + tzOffset) for  *)
(* the calendar views, and a zone with a daylight-saving rule for the      *)
(* exports (utils/export.js) and the date line (utils/timezone.js).        *)
(* A date-only string 'YYYY-MM-DD' is the triple <<y, m, d>>.              *)
(***************************************************************************)
EXTENDS Integers, Sequences, FiniteSets, TLC

VARIABLES
    events,          \* App: useState([])  the snapshot last fetched
    filteredEvents,  \* App: useState([])  the visible set handed to the views
    searchQuery,     \* App: useState('')
    filters,         \* App: useState({sport, location, age, gender, eventType, dateRange})
    effectPending,   \* the applyFilters effect is scheduled and has not run yet
    currentView,     \* App: useState('month')
    currentDate,     \* App: useState(new Date())  the anchor instant
    listMounted,     \* the /list route is rendered, so ListView holds state
    sortField,       \* ListView: useState('startDateTime')
    sortDirection,   \* ListView: useState('asc')
    tzOffset,        \* the browser's UTC offset in hours
    uncaught,        \* an exception escaped a handler, an effect or a render
    zone,            \* the browser's zone with its daylight-saving rule
    exported,        \* what the last export or formatting call produced
    loading,         \* App: useState(true)
    error,           \* App: useState(null)  the load-failed message
    fetches,         \* the fetchEvents() calls made so far, in the order started
    selectedEvent,   \* App: useState(null)
    isModalOpen,     \* App: useState(false)
    activeElement    \* the tag of the element that holds the focus

filterVars == <<events, filteredEvents, searchQuery, filters, effectPending>>
navVars    == <<currentView, currentDate>>
listVars   == <<listMounted, sortField, sortDirection>>
vars       == <<events, filteredEvents, searchQuery, filters, effectPending,
                currentView, currentDate, listMounted, sortField, sortDirection,
                tzOffset, uncaught, zone, exported,
                loading, error, fetches, selectedEvent, isModalOpen, activeElement>>
exportVars == <<zone, exported>>
loadVars   == <<loading, error, fetches>>
modalVars  == <<selectedEvent, isModalOpen, activeElement>>

---------------------------------------------------------------------------
(* Bounds of the model *)

\* the longest snapshot the record store returns
MaxEvents == 3
\* the number of days, from FirstDay on, the anchor date ranges over
SpanDays == 400
\* the number of days, from ViewFirstDay on, the anchor ranges over in the
\* projection specification
ViewSpanDays == 16
\* the longest visible set in the projection specification
MaxDayEvents == 3
\* the records of a snapshot of the list specification
MaxListEvents == 3
\* the days after the first anchor day of the list specification
ListSpanDays == 3
\* the records of a snapshot of the export specification
MaxExportEvents == 2

---------------------------------------------------------------------------
(* JavaScript strings *)

\* null / undefined: no character has code 0, so it differs from every string
Null == <<0>>

Range(s) == {s[i] : i \in 1..Len(s)}

MinOf(S) == CHOOSE x \in S : \A y \in S : x <= y

\* String.prototype.toLowerCase
toLowerCase(s) == [i \in 1..Len(s) |-> IF s[i] \in 65..90 THEN s[i] + 32 ELSE s[i]]

\* String.prototype.includes
includes(s, q) == \E i \in 0..(Len(s) - Len(q)) : SubSeq(s, i + 1, i + Len(q)) = q

\* JavaScript truthiness of a string-or-null value
Truthy(v) == v # Null /\ v # <<>>

\* (v || '')
OrEmpty(v) == IF Truthy(v) THEN v ELSE <<>>

\* comparison of two sequences of codes, position by position: -1, 0 or 1
LexCmp(x, y) ==
    LET n == IF Len(x) < Len(y) THEN Len(x) ELSE Len(y)
        D == {i \in 1..n : x[i] # y[i]}
    IN  IF D = {}
        THEN (IF Len(x) < Len(y) THEN -1 ELSE IF Len(x) > Len(y) THEN 1 ELSE 0)
        ELSE (IF x[MinOf(D)] < y[MinOf(D)] THEN -1 ELSE 1)

\* String.prototype.localeCompare under the default collation: letters first
\* compare regardless of case; strings equal up to case are ordered by the
\* first position whose case differs, lower case first
localeCompare(a, b) ==
    LET p == LexCmp(toLowerCase(a), toLowerCase(b))
        D == {i \in 1..Len(a) : a[i] # b[i]}
    IN  IF p # 0 THEN p
        ELSE IF D = {} THEN 0
        ELSE IF a[MinOf(D)] > b[MinOf(D)] THEN -1 ELSE 1

---------------------------------------------------------------------------
(* JavaScript dates *)

DateObj(t)  == [tag |-> "date", time |-> t]
InvalidDate == [tag |-> "invalid", time |-> 0]
NullDate    == [tag |-> "null", time |-> 0]

\* an unparseable date string
BadDateString == <<>>

\* a non-empty string that is no date: "x"
NonDateString == <<120>>

IsLeap(y) == (y % 4 = 0 /\ y % 100 # 0) \/ y % 400 = 0

DaysInMonth(y, m) ==
    IF m = 2 THEN (IF IsLeap(y) THEN 29 ELSE 28)
    ELSE IF m \in {4, 6, 9, 11} THEN 30 ELSE 31

IsISODate(s) ==
    /\ Len(s) = 3
    /\ s[2] \in 1..12
    /\ s[3] \in 1..DaysInMonth(s[1], s[2])

\* days from 1970-01-01 to the civil date y-m-d (proleptic Gregorian)
DaysFromCivil(y, m, d) ==
    LET yy  == IF m <= 2 THEN y - 1 ELSE y
        era == yy \div 400
        yoe == yy - era * 400
        mp  == (m + 9) % 12
        doy == (153 * mp + 2) \div 5 + d - 1
        doe == yoe * 365 + yoe \div 4 - yoe \div 100 + doy
    IN  era * 146097 + doe - 719468

\* the civil date <<y, m, d>> of a day number
CivilFromDays(z0) ==
    LET z   == z0 + 719468
        era == z \div 146097
        doe == z - era * 146097
        yoe == (doe - doe \div 1460 + doe \div 36524 - doe \div 146096) \div 365
        doy == doe - (365 * yoe + yoe \div 4 - yoe \div 100)
        mp  == (5 * doy + 2) \div 153
        d   == doy - (153 * mp + 2) \div 5 + 1
        m   == IF mp < 10 THEN mp + 3 ELSE mp - 9
        y   == yoe + era * 400
    IN  <<IF m <= 2 THEN y + 1 ELSE y, m, d>>

\* new Date('YYYY-MM-DD'): a date-only string is read as UTC midnight;
\* new Date(null) is the epoch
NewDate(s) == IF IsISODate(s) THEN DateObj(24 * DaysFromCivil(s[1], s[2], s[3]))
              ELSE IF s = <<0>> THEN DateObj(0)
              ELSE InvalidDate

\* a < b on two Date objects (valueOf; NaN compares false)
DateLt(a, b) == a.tag = "date" /\ b.tag = "date" /\ a.time < b.time

\* a zone: the offsets of standard and of daylight-saving time in hours, and
\* the instants between which daylight-saving time applies
FixedZone(offset) == [std |-> offset, dst |-> offset, from |-> 0, to |-> 0]

\* no export or formatting call has been made
NoExport == [op |-> "none"]

\* useState(null) for selectedEvent, and an event held there
NoSelection == [tag |-> "null"]
Selected(event) == [tag |-> "event", event |-> event]

\* 'Failed to load events. Please try again.'
LoadFailedMessage ==
    <<70, 97, 105, 108, 101, 100, 32, 116, 111, 32, 108, 111, 97, 100, 32, 101, 118, 101,
      110, 116, 115, 46, 32, 80, 108, 101, 97, 115, 101, 32, 116, 114, 121, 32, 97, 103,
      97, 105, 110, 46>>

---------------------------------------------------------------------------
(* Event records and the snapshots the record store returns *)

Ev(id, name, sport, location, age, gender, type, start) ==
    [id |-> id, name |-> name, sport |-> sport, location |-> location,
     age |-> age, gender |-> gender, event_type |-> type,
     start_date |-> start, end_date |-> start]

\* records of the filter specification: "Ab", "b", "Ba", "aB" ... over the
\* letters A/a and B/b; absent (Null) and empty fields; an unparseable date
FilterPool ==
    { Ev(1, <<65, 98>>, <<65>>, <<66, 97>>, <<66>>, <<97>>, <<65>>, <<2024, 3, 14>>),
      Ev(2, <<98>>, <<97>>, Null, <<66>>, Null, Null, <<2024, 3, 15>>),
      Ev(3, Null, Null, <<97, 66>>, Null, <<97>>, <<65>>, <<2024, 3, 15>>),
      Ev(4, <<66, 97>>, <<65>>, <<>>, Null, Null, Null, BadDateString),
      Ev(5, <<97, 66>>, <<97>>, <<98>>, Null, <<97>>, <<65>>, <<2024, 3, 16>>) }

\* .order('start_date', { ascending: true }): ISO date strings ascend
IsStoreOrder(s) ==
    \A i, j \in 1..Len(s) :
        (i < j /\ IsISODate(s[i].start_date) /\ IsISODate(s[j].start_date))
            => ~DateLt(NewDate(s[j].start_date), NewDate(s[i].start_date))

\* the snapshots of at most n records of pool, ids unique, in store order
Snapshots(pool, n) ==
    {s \in UNION {[1..k -> pool] : k \in 0..n} :
        /\ \A i, j \in 1..Len(s) : i # j => s[i].id # s[j].id
        /\ IsStoreOrder(s)}

FilterSnapshots == Snapshots(FilterPool, MaxEvents)

---------------------------------------------------------------------------
(* The filter engine: App.js applyFilters *)

Queries == {<<>>, <<97>>, <<66, 65>>}
LocationInputs == {<<>>, <<98, 65>>}
DateInputs == {<<2024, 3, 15>>}
FilterKeys == {"sport", "age", "gender", "eventType"}

NoFilters ==
    [sport |-> <<>>, location |-> <<>>, age |-> <<>>, gender |-> <<>>,
     eventType |-> <<>>, dateRange |-> [start |-> NullDate, end |-> NullDate]]

\* (event.name || '').toString()
nameText(event) == OrEmpty(event.name)

\* (event.location || '').toString()
locationText(event) == OrEmpty(event.location)

\* event.sport with the (... || '') guard left out
sportTextUnguarded(event) == event.sport

\* (event.sport || '')
sportText(event) == OrEmpty(event.sport)

\* a method call on v raises a TypeError when v is null or undefined
CallRaises(v) == v = Null

\* the filter callback raises on this record: one of the method calls it
\* reaches has a null receiver
filterRaises(event, q, f) ==
    LET query == toLowerCase(q)
    IN  \/ CallRaises(nameText(event))
        \/ CallRaises(locationText(event))
        \/ /\ Truthy(q)
           /\ ~includes(toLowerCase(nameText(event)), query)
           /\ ~includes(toLowerCase(locationText(event)), query)
           /\ CallRaises(sportText(event))

\* the date-range test with <= and >= for < and >: a record on a bound is dropped
inDateRangeExclusive(event, range) ==
    LET eventDate == NewDate(event.start_date)
    IN  (range.start.tag # "null" \/ range.end.tag # "null") =>
            /\ ~(range.start.tag # "null" /\ ~DateLt(range.start, eventDate))
            /\ ~(range.end.tag # "null" /\ ~DateLt(eventDate, range.end))

\* the date-range test of the filter callback
inDateRange(event, range) ==
    LET eventDate == NewDate(event.start_date)
    IN  (range.start.tag # "null" \/ range.end.tag # "null") =>
            /\ ~(range.start.tag # "null" /\ DateLt(eventDate, range.start))
            /\ ~(range.end.tag # "null" /\ DateLt(range.end, eventDate))

\* the predicate with the sport compared without the (filters.sport && ...) guard
keepsEventUnguarded(event, q, f) ==
    /\ event.sport = f.sport
    /\ inDateRange(event, f.dateRange)

\* the predicate with the sport compared ignoring case
keepsEventSportAnyCase(event, q, f) ==
    /\ Truthy(q) =>
          \/ includes(toLowerCase(nameText(event)), toLowerCase(q))
          \/ includes(toLowerCase(locationText(event)), toLowerCase(q))
          \/ includes(toLowerCase(sportText(event)), toLowerCase(q))
    /\ ~(Truthy(f.sport) /\ toLowerCase(sportText(event)) # toLowerCase(f.sport))
    /\ ~(Truthy(f.location)
         /\ ~includes(toLowerCase(locationText(event)), toLowerCase(f.location)))
    /\ ~(Truthy(f.age) /\ event.age # f.age)
    /\ ~(Truthy(f.gender) /\ event.gender # f.gender)
    /\ ~(Truthy(f.eventType) /\ event.event_type # f.eventType)
    /\ inDateRange(event, f.dateRange)

\* the predicate with the location filter compared without lower-casing it
keepsEventLocationCase(event, q, f) ==
    /\ Truthy(q) =>
          \/ includes(toLowerCase(nameText(event)), toLowerCase(q))
          \/ includes(toLowerCase(locationText(event)), toLowerCase(q))
          \/ includes(toLowerCase(sportText(event)), toLowerCase(q))
    /\ ~(Truthy(f.sport) /\ event.sport # f.sport)
    /\ ~(Truthy(f.location) /\ ~includes(locationText(event), f.location))
    /\ ~(Truthy(f.age) /\ event.age # f.age)
    /\ ~(Truthy(f.gender) /\ event.gender # f.gender)
    /\ ~(Truthy(f.eventType) /\ event.event_type # f.eventType)
    /\ inDateRange(event, f.dateRange)

\* the predicate of events.filter(...) in applyFilters
keepsEvent(event, q, f) ==
    LET eventName     == nameText(event)
        eventLocation == locationText(event)
        query         == toLowerCase(q)
    IN  /\ Truthy(q) =>
              \/ includes(toLowerCase(eventName), query)
              \/ includes(toLowerCase(eventLocation), query)
              \/ includes(toLowerCase(sportText(event)), query)
        /\ ~(Truthy(f.sport) /\ event.sport # f.sport)
        /\ ~(Truthy(f.location)
             /\ ~includes(toLowerCase(eventLocation), toLowerCase(f.location)))
        /\ ~(Truthy(f.age) /\ event.age # f.age)
        /\ ~(Truthy(f.gender) /\ event.gender # f.gender)
        /\ ~(Truthy(f.eventType) /\ event.event_type # f.eventType)
        /\ inDateRange(event, f.dateRange)

\* events.filter(...): the kept records, in input order
filterEvents(E, q, f) == SelectSeq(E, LAMBDA event : keepsEvent(event, q, f))

\* FiltersBar: the options of a dropdown, [...new Set(events.map(...))].filter(Boolean)
DropdownOptions(key) ==
    LET field == IF key = "eventType" THEN "event_type" ELSE key
    IN  {e[field] : e \in {x \in Range(events) : Truthy(x[field])}}

\* FiltersBar: hasActiveFilters
hasActiveFilters ==
    \/ \E k \in FilterKeys \cup {"location"} : filters[k] # <<>>
    \/ filters.dateRange.start.tag # "null"
    \/ filters.dateRange.end.tag # "null"

\* loadEvents run from its call to its end with nothing in between, the fetch
\* answering data: the call is not kept in fetches
loadEvents(data) ==
    /\ ~effectPending
    /\ ~uncaught
    /\ events' = data
    /\ filteredEvents' = data
    /\ effectPending' = TRUE
    /\ loading' = FALSE
    /\ error' = Null
    /\ UNCHANGED <<searchQuery, filters, fetches>>
    /\ UNCHANGED <<navVars, listVars, tzOffset, modalVars, exportVars, uncaught>>

\* SearchBox: setSearchQuery(e.target.value)
setSearchQuery(q) ==
    /\ ~effectPending
    /\ ~uncaught
    /\ q # searchQuery
    /\ searchQuery' = q
    /\ effectPending' = TRUE
    /\ UNCHANGED <<events, filteredEvents, filters>>
    /\ UNCHANGED <<navVars, listVars, tzOffset, loadVars, modalVars, exportVars, uncaught>>

\* FiltersBar: updateFilter(key, value) from a dropdown or the location input
updateFilter(key, value) ==
    /\ ~effectPending
    /\ ~uncaught
    /\ filters' = [filters EXCEPT ![key] = value]
    /\ effectPending' = TRUE
    /\ UNCHANGED <<events, filteredEvents, searchQuery>>
    /\ UNCHANGED <<navVars, listVars, tzOffset, loadVars, modalVars, exportVars, uncaught>>

\* FiltersBar: the date inputs, updateFilter('dateRange', {...filters.dateRange, ...})
updateDateRange(bound, value) ==
    /\ ~effectPending
    /\ ~uncaught
    /\ filters' = [filters EXCEPT !.dateRange[bound] = value]
    /\ effectPending' = TRUE
    /\ UNCHANGED <<events, filteredEvents, searchQuery>>
    /\ UNCHANGED <<navVars, listVars, tzOffset, loadVars, modalVars, exportVars, uncaught>>

\* FiltersBar: clearAllFilters
clearAllFilters ==
    /\ ~effectPending
    /\ ~uncaught
    /\ hasActiveFilters
    /\ filters' = NoFilters
    /\ effectPending' = TRUE
    /\ UNCHANGED <<events, filteredEvents, searchQuery>>
    /\ UNCHANGED <<navVars, listVars, tzOffset, loadVars, modalVars, exportVars, uncaught>>

\* useEffect(() => applyFilters(), [applyFilters])
applyFilters ==
    /\ effectPending
    /\ ~uncaught
    /\ effectPending' = FALSE
    /\ IF \E i \in 1..Len(events) : filterRaises(events[i], searchQuery, filters)
       THEN uncaught' = TRUE /\ UNCHANGED filteredEvents
       ELSE /\ filteredEvents' = filterEvents(events, searchQuery, filters)
            /\ UNCHANGED uncaught
    /\ UNCHANGED <<events, searchQuery, filters>>
    /\ UNCHANGED <<navVars, listVars, tzOffset, loadVars, modalVars, exportVars>>

InitFilter ==
    /\ events = <<>>
    /\ filteredEvents = <<>>
    /\ searchQuery = <<>>
    /\ filters = NoFilters
    /\ effectPending = TRUE
    /\ currentView = "month"
    /\ currentDate = 0
    /\ listMounted = FALSE
    /\ sortField = "startDateTime"
    /\ sortDirection = "asc"
    /\ tzOffset = 0
    /\ uncaught = FALSE
    /\ zone = FixedZone(tzOffset)
    /\ exported = NoExport
    /\ loading = TRUE
    /\ error = Null
    /\ fetches = <<>>
    /\ selectedEvent = NoSelection
    /\ isModalOpen = FALSE
    /\ activeElement = "BODY"

NextFilter ==
    \/ \E data \in FilterSnapshots : loadEvents(data)
    \/ \E q \in Queries : setSearchQuery(q)
    \/ \E k \in FilterKeys : \E v \in DropdownOptions(k) \cup {<<>>} : updateFilter(k, v)
    \/ \E v \in LocationInputs : updateFilter("location", v)
    \/ \E b \in {"start", "end"} : \E v \in {NullDate} \cup {NewDate(s) : s \in DateInputs} :
           updateDateRange(b, v)
    \/ clearAllFilters
    \/ applyFilters

SpecFilter == InitFilter /\ [][NextFilter]_vars

---------------------------------------------------------------------------
(* date-fns and Date arithmetic in the browser's zone *)

\* the number of the local calendar day an instant falls on
LocalDayNumber(t) == (t + tzOffset) \div 24

\* the local hour of the day of an instant
LocalHour(t) == (t + tzOffset) % 24

\* the instant of local hour h on local day number n
LocalInstant(n, h) == 24 * n + h - tzOffset

\* date-fns parseISO('YYYY-MM-DD'): local midnight of that date
parseISO(s) ==
    IF IsISODate(s) THEN DateObj(LocalInstant(DaysFromCivil(s[1], s[2], s[3]), 0))
    ELSE InvalidDate

\* date-fns startOfDay
startOfDay(t) == LocalInstant(LocalDayNumber(t), 0)

\* date-fns isSameDay(dateLeft, dateRight), dateRight a valid instant
isSameDay(d, t) == d.tag = "date" /\ startOfDay(d.time) = startOfDay(t)

\* Date.prototype.getDay: 0 is Sunday (1970-01-01 was a Thursday)
getDay(t) == (LocalDayNumber(t) + 4) % 7

\* date-fns startOfMonth
startOfMonth(t) ==
    LET c == CivilFromDays(LocalDayNumber(t))
    IN  LocalInstant(DaysFromCivil(c[1], c[2], 1), 0)

\* date-fns endOfMonth: the last instant of the month's last day
endOfMonth(t) ==
    LET c == CivilFromDays(LocalDayNumber(t))
    IN  LocalInstant(DaysFromCivil(c[1], c[2], DaysInMonth(c[1], c[2])), 23)

\* date-fns startOfWeek with weekStartsOn 1 (Monday)
startOfWeekMonday(t) == startOfDay(t) - 24 * ((getDay(t) + 6) % 7)

\* date-fns startOfWeek, default options: the week starts on Sunday
startOfWeek(t) == startOfDay(t) - 24 * getDay(t)

\* date-fns endOfWeek: the last instant of the week's Saturday
endOfWeek(t) == startOfWeek(t) + 24 * 6 + 23

\* date-fns addDays
addDays(t, n) == t + 24 * n

\* Date.prototype.setMonth(getMonth() + direction): a day the target month
\* lacks rolls over into the month after it
setMonth(t, direction) ==
    LET c  == CivilFromDays(LocalDayNumber(t))
        m0 == c[2] - 1 + direction
        y  == c[1] + (m0 \div 12)
        m  == (m0 % 12) + 1
    IN  LocalInstant(DaysFromCivil(y, m, 1) + c[3] - 1, LocalHour(t))

\* Date.prototype.setDate(getDate() + n)
setDate(t, n) == LocalInstant(LocalDayNumber(t) + n, LocalHour(t))

\* Array.prototype.sort(cmp): the stable arrangement under a consistent comparator;
\* cmp[j, i] is the comparator's result on (s[j], s[i])
StableSort(s, cmp) ==
    LET rank(i) == 1 + Cardinality({j \in 1..Len(s) :
                        \/ cmp[j, i] < 0
                        \/ cmp[j, i] = 0 /\ j < i})
    IN  [k \in 1..Len(s) |-> s[CHOOSE i \in 1..Len(s) : rank(i) = k]]

\* Array.prototype.slice(0, n)
slice(s, n) == SubSeq(s, 1, IF Len(s) < n THEN Len(s) ELSE n)

---------------------------------------------------------------------------
(* The projections: CalendarGrid and DayCell *)

\* the number of tiles a month cell or a week column shows
DisplayCap == 2

\* the "+N more" indicator: <<N>> when shown, <<>> when not
MoreIndicator(n) == IF n > DisplayCap THEN <<n - DisplayCap>> ELSE <<>>

\* DayCell as it is without the sort: the day's first two records in input order
DayCellUnsorted(day, E) ==
    LET dayEvents == SelectSeq(E, LAMBDA event : isSameDay(parseISO(event.start_date), day))
    IN  [day |-> day, shown |-> slice(dayEvents, DisplayCap), more |-> MoreIndicator(Len(dayEvents))]

\* DayCell: a day of the month grid
DayCell(day, E) ==
    LET dayEvents == SelectSeq(E, LAMBDA event : isSameDay(parseISO(event.start_date), day))
        sortedDayEvents ==
            IF Len(dayEvents) > DisplayCap
            THEN StableSort(dayEvents,
                     [a \in DOMAIN dayEvents, b \in DOMAIN dayEvents |->
                         localeCompare(toLowerCase(dayEvents[a].name),
                                       toLowerCase(dayEvents[b].name))])
            ELSE dayEvents
    IN  [day |-> day, shown |-> slice(sortedDayEvents, DisplayCap),
         more |-> MoreIndicator(Len(sortedDayEvents))]

\* getEventsForDate with the names compared by code unit (a.name < b.name)
getEventsForDateCodeUnits(date, E) ==
    LET dayEvents == SelectSeq(E, LAMBDA event : isSameDay(parseISO(event.start_date), date))
    IN  StableSort(dayEvents, [a \in DOMAIN dayEvents, b \in DOMAIN dayEvents |->
                                  LexCmp(dayEvents[a].name, dayEvents[b].name)])

\* getEventsForDate with the instants compared instead of the days
getEventsForDateExactInstant(date, E) ==
    LET dayEvents == SelectSeq(E, LAMBDA event : parseISO(event.start_date) = DateObj(date))
    IN  StableSort(dayEvents, [a \in DOMAIN dayEvents, b \in DOMAIN dayEvents |->
                                  localeCompare(dayEvents[a].name, dayEvents[b].name)])

\* CalendarGrid: getEventsForDate
getEventsForDate(date, E) ==
    LET dayEvents == SelectSeq(E, LAMBDA event : isSameDay(parseISO(event.start_date), date))
    IN  StableSort(dayEvents, [a \in DOMAIN dayEvents, b \in DOMAIN dayEvents |->
                                  localeCompare(dayEvents[a].name, dayEvents[b].name)])

\* the rows of renderMonthView's loop: while (day <= endDate) push 7 days
RECURSIVE monthRows(_, _)
monthRows(day, endDate) ==
    IF day <= endDate
    THEN <<[i \in 1..7 |-> addDays(day, i - 1)]>> \o monthRows(addDays(day, 7), endDate)
    ELSE <<>>

\* the day cells of a row of the month grid, each a DayCell
RECURSIVE flatten(_)
flatten(rows) == IF rows = <<>> THEN <<>> ELSE Head(rows) \o flatten(Tail(rows))

\* CalendarGrid: renderMonthView, the grid's days row by row
renderMonthView(anchor) ==
    LET monthStart == startOfMonth(anchor)
        monthEnd   == endOfMonth(monthStart)
        startDate  == startOfWeek(monthStart)
        endDate    == endOfWeek(monthEnd)
    IN  monthRows(startDate, endDate)

\* the month grid's cells in order
monthCells(anchor, E) ==
    LET days == flatten(renderMonthView(anchor))
    IN  [i \in 1..Len(days) |-> DayCell(days[i], E)]

\* CalendarGrid: renderWeekView, one column per day
renderWeekView(anchor, E) ==
    LET startDate == startOfWeek(anchor)
    IN  [i \in 1..7 |->
            LET day       == addDays(startDate, i - 1)
                dayEvents == getEventsForDate(day, E)
            IN  [day |-> day, shown |-> slice(dayEvents, DisplayCap),
                 more |-> MoreIndicator(Len(dayEvents))]]

\* CalendarGrid: renderDayView, the list of the anchor day
renderDayView(anchor, E) == getEventsForDate(anchor, E)

\* DayCell: the comparator of its sort calls a.name.toLowerCase(); sort runs
\* only on a day with more than two records, and compares every one of them
DayCellRaises(day, E) ==
    LET dayEvents == SelectSeq(E, LAMBDA event : isSameDay(parseISO(event.start_date), day))
    IN  /\ Len(dayEvents) > DisplayCap
        /\ \E i \in DOMAIN dayEvents : CallRaises(dayEvents[i].name)

\* getEventsForDate: the comparator calls a.name.localeCompare(b.name) once
\* the day holds two records or more
getEventsForDateRaises(date, E) ==
    LET dayEvents == SelectSeq(E, LAMBDA event : isSameDay(parseISO(event.start_date), date))
    IN  /\ Len(dayEvents) >= 2
        /\ \E i \in DOMAIN dayEvents : CallRaises(dayEvents[i].name)

\* CalendarGrid: rendering the view of anchor throws
CalendarGridRaises(view, anchor, E) ==
    CASE view = "month" ->
            LET days == flatten(renderMonthView(anchor))
            IN  \E i \in DOMAIN days : DayCellRaises(days[i], E)
      [] view = "week"  ->
            \E i \in 0..6 : getEventsForDateRaises(addDays(startOfWeek(anchor), i), E)
      [] view = "day"   -> getEventsForDateRaises(anchor, E)
      [] OTHER          -> FALSE

\* CalendarGrid on a small screen (isMobile && view !== 'list'): the events
\* whose parsed start_date lies from start to end, by start_date; an
\* unparseable start_date compares false and is left out
mobileList(view, anchor, E) ==
    LET start == CASE view = "month" -> startOfMonth(anchor)
                   [] view = "week"  -> startOfWeek(anchor)
                   [] OTHER          -> anchor
        end   == CASE view = "month" -> endOfMonth(anchor)
                   [] view = "week"  -> endOfWeek(anchor)
                   [] OTHER          -> anchor
        allEventsInPeriod ==
            SelectSeq(E, LAMBDA event :
                LET eventDate == parseISO(event.start_date)
                IN  /\ eventDate.tag = "date"
                    /\ eventDate.time >= start
                    /\ eventDate.time <= end)
    IN  StableSort(allEventsInPeriod,
            [a \in DOMAIN allEventsInPeriod, b \in DOMAIN allEventsInPeriod |->
                LexCmp(allEventsInPeriod[a].start_date, allEventsInPeriod[b].start_date)])

---------------------------------------------------------------------------
(* Navigation (App.js) and the list view's sort state (ListView) *)

Views == {"month", "week", "day", "list"}
SortFields == {"startDateTime", "name", "location", "sport", "age", "gender", "eventType"}
TzOffsets == {-5, 0, 9}
NowHours == {9, 22}

FirstDay == DaysFromCivil(2015, 2, 1)
AnchorDays == FirstDay..(FirstDay + SpanDays)

ViewFirstDay == DaysFromCivil(2024, 3, 8)
ViewDays == ViewFirstDay..(ViewFirstDay + ViewSpanDays)

\* instants new Date() returns in the span days from first on: two hours of
\* the 8th day and of every 61st day after it
Nows(first, span) ==
    {24 * (first + k) + h : k \in {j \in 0..span : j % 61 = 7}, h \in NowHours}

\* ListView: the record field a sort field reads
sortKey(field) ==
    CASE field = "startDateTime" -> "start_date"
      [] field = "eventType"     -> "event_type"
      [] OTHER                   -> field

\* the comparator's values without toLowerCase()
sortValueRaw(event, field) ==
    CASE field = "startDateTime" -> NewDate(event.start_date)
      [] field = "eventType"     -> OrEmpty(event.event_type)
      [] OTHER                   -> event[sortKey(field)]

\* ListView: aValue / bValue of the comparator's switch
sortValue(event, field) ==
    CASE field = "startDateTime" -> NewDate(event.start_date)
      [] field = "eventType"     -> toLowerCase(OrEmpty(event.event_type))
      [] OTHER                   -> toLowerCase(event[sortKey(field)])

\* aValue < bValue: instants for Date objects (never true of an Invalid
\* Date), code units for strings
valueLt(a, b, field) ==
    IF field = "startDateTime" THEN DateLt(a, b) ELSE LexCmp(a, b) < 0

\* ListView: the comparator of sortedEvents
sortCompare(a, b, field, direction) ==
    LET aValue == sortValue(a, field)
        bValue == sortValue(b, field)
    IN  IF valueLt(aValue, bValue, field) THEN (IF direction = "asc" THEN -1 ELSE 1)
        ELSE IF valueLt(bValue, aValue, field) THEN (IF direction = "asc" THEN 1 ELSE -1)
        ELSE 0

\* ListView: sortedEvents, [...events].sort(comparator)
sortedEvents(E, field, direction) ==
    StableSort(E, [a \in DOMAIN E, b \in DOMAIN E |-> sortCompare(E[a], E[b], field, direction)])

\* ListView: the comparator throws, a.name.toLowerCase() on an absent field;
\* event_type alone is read through (x || ''), sort compares every record of
\* a list of two or more
sortedEventsRaises(E, field) ==
    /\ Len(E) >= 2
    /\ field \notin {"startDateTime", "eventType"}
    /\ \E i \in DOMAIN E : CallRaises(E[i][sortKey(field)])

\* the render that follows a state change throws
renderRaises(view, anchor, E, field) ==
    IF view = "list" THEN sortedEventsRaises(E, field) ELSE CalendarGridRaises(view, anchor, E)

\* the sort state ListView is mounted with
ListInit ==
    /\ sortField' = "startDateTime"
    /\ sortDirection' = "asc"

\* the route's element changes: ListView is mounted afresh on entering /list,
\* unmounted on leaving it, and keeps its state otherwise
Route(view) ==
    /\ listMounted' = (view = "list")
    /\ IF listMounted /\ view = "list"
       THEN UNCHANGED <<sortField, sortDirection>>
       ELSE ListInit

\* navigateDate: the new anchor
navigateTarget(t, view, direction) ==
    CASE view = "month" -> setMonth(t, direction)
      [] view = "week"  -> setDate(t, direction * 7)
      [] view = "day"   -> setDate(t, direction)
      [] OTHER          -> t

\* App: navigateDate(direction), from the arrows of CalendarNav or the keyboard
navigateDate(direction, Days) ==
    /\ ~uncaught
    /\ ~effectPending
    /\ LocalDayNumber(navigateTarget(currentDate, currentView, direction)) \in Days
    /\ currentDate' = navigateTarget(currentDate, currentView, direction)
    /\ uncaught' = renderRaises(currentView,
                                navigateTarget(currentDate, currentView, direction),
                                filteredEvents, sortField)
    /\ UNCHANGED <<currentView, filterVars, listVars, tzOffset, loadVars, modalVars, exportVars>>

\* App: goToToday, setCurrentDate(new Date())
goToToday(now) ==
    /\ ~uncaught
    /\ ~effectPending
    /\ currentDate' = now
    /\ uncaught' = renderRaises(currentView, now, filteredEvents, sortField)
    /\ UNCHANGED <<currentView, filterVars, listVars, tzOffset, loadVars, modalVars, exportVars>>

\* the days a click can land on: the cells of the month grid, the columns of the week
clickableDays ==
    CASE currentView = "month" -> Range(flatten(renderMonthView(currentDate)))
      [] currentView = "week"  -> {addDays(startOfWeek(currentDate), i) : i \in 0..6}
      [] OTHER                 -> {}

\* App: handleDayClick(date)
handleDayClick(date, Days) ==
    /\ ~uncaught
    /\ ~effectPending
    /\ LocalDayNumber(date) \in Days
    /\ currentView' = "day"
    /\ currentDate' = date
    /\ Route("day")
    /\ uncaught' = renderRaises("day", date, filteredEvents, "startDateTime")
    /\ UNCHANGED <<filterVars, tzOffset, loadVars, modalVars, exportVars>>

\* Header: handleViewChange(view), setCurrentView(view.key) and navigate(view.path)
handleViewChange(view) ==
    /\ ~uncaught
    /\ ~effectPending
    /\ currentView' = view
    /\ Route(view)
    /\ uncaught' = renderRaises(view, currentDate, filteredEvents,
                                IF listMounted /\ view = "list" THEN sortField
                                ELSE "startDateTime")
    /\ UNCHANGED <<currentDate, filterVars, tzOffset, loadVars, modalVars, exportVars>>

\* handleSort without setSortDirection('asc') when another field is selected
handleSortTarget_KeepDirection(field) ==
    IF sortField = field
    THEN [field |-> sortField, direction |-> IF sortDirection = "asc" THEN "desc" ELSE "asc"]
    ELSE [field |-> field, direction |-> sortDirection]

\* ListView: handleSort(field), the sort state it leaves
handleSortTarget(field) ==
    IF sortField = field
    THEN [field |-> sortField, direction |-> IF sortDirection = "asc" THEN "desc" ELSE "asc"]
    ELSE [field |-> field, direction |-> "asc"]

\* ListView: a click on a column header
handleSort(field) ==
    /\ ~uncaught
    /\ ~effectPending
    /\ listMounted
    /\ sortField' = handleSortTarget(field).field
    /\ sortDirection' = handleSortTarget(field).direction
    /\ uncaught' = renderRaises(currentView, currentDate, filteredEvents,
                                handleSortTarget(field).field)
    /\ UNCHANGED <<listMounted, navVars, filterVars, tzOffset, loadVars, modalVars, exportVars>>

Init ==
    /\ events = <<>>
    /\ filteredEvents = <<>>
    /\ searchQuery = <<>>
    /\ filters = NoFilters
    /\ effectPending = FALSE
    /\ currentView = "month"
    /\ tzOffset \in TzOffsets
    /\ currentDate \in Nows(FirstDay, SpanDays)
    /\ LocalDayNumber(currentDate) \in AnchorDays
    /\ listMounted = FALSE
    /\ sortField = "startDateTime"
    /\ sortDirection = "asc"
    /\ uncaught = FALSE
    /\ zone = FixedZone(tzOffset)
    /\ exported = NoExport
    /\ loading = FALSE
    /\ error = Null
    /\ fetches = <<>>
    /\ selectedEvent = NoSelection
    /\ isModalOpen = FALSE
    /\ activeElement = "BODY"

Next ==
    \/ \E d \in {-1, 1} : navigateDate(d, AnchorDays)
    \/ \E now \in Nows(FirstDay, SpanDays) : LocalDayNumber(now) \in AnchorDays /\ goToToday(now)
    \/ \E date \in clickableDays : handleDayClick(date, AnchorDays)
    \/ \E view \in Views : handleViewChange(view)
    \/ \E field \in SortFields : handleSort(field)

Spec == Init /\ [][Next]_vars

---------------------------------------------------------------------------
(* The projection specification: a visible set, an anchor and a view *)

\* "Zeta", "Alpha", "Mid", "alpha" on 2024-03-15 and "Beta" the day before
ViewPool ==
    { Ev(1, <<90, 101, 116, 97>>, <<65>>, <<66>>, <<65>>, <<65>>, <<65>>, <<2024, 3, 15>>),
      Ev(2, <<65, 108, 112, 104, 97>>, <<65>>, <<66>>, <<65>>, <<65>>, <<65>>, <<2024, 3, 15>>),
      Ev(3, <<77, 105, 100>>, <<65>>, <<66>>, <<65>>, <<65>>, <<65>>, <<2024, 3, 15>>),
      Ev(4, <<97, 108, 112, 104, 97>>, <<65>>, <<66>>, <<65>>, <<65>>, <<65>>, <<2024, 3, 15>>),
      Ev(5, <<66, 101, 116, 97>>, <<65>>, <<66>>, <<65>>, <<65>>, <<65>>, <<2024, 3, 14>>) }

ViewSnapshots == Snapshots(ViewPool, MaxDayEvents)

InitView ==
    /\ events \in ViewSnapshots
    /\ filteredEvents = events
    /\ searchQuery = <<>>
    /\ filters = NoFilters
    /\ effectPending = FALSE
    /\ currentView = "month"
    /\ tzOffset \in TzOffsets
    /\ currentDate \in Nows(ViewFirstDay, ViewSpanDays)
    /\ LocalDayNumber(currentDate) \in ViewDays
    /\ listMounted = FALSE
    /\ sortField = "startDateTime"
    /\ sortDirection = "asc"
    /\ uncaught = FALSE
    /\ zone = FixedZone(tzOffset)
    /\ exported = NoExport
    /\ loading = FALSE
    /\ error = Null
    /\ fetches = <<>>
    /\ selectedEvent = NoSelection
    /\ isModalOpen = FALSE
    /\ activeElement = "BODY"

NextView ==
    \/ \E d \in {-1, 1} : navigateDate(d, ViewDays)
    \/ \E date \in clickableDays : handleDayClick(date, ViewDays)
    \/ \E view \in Views : handleViewChange(view)

SpecView == InitView /\ [][NextView]_vars

---------------------------------------------------------------------------
(* The list specification: a visible set with absent fields, the views and
   the column headers of ListView *)

\* names "b", "Ab", "aB", "B", an absent one and "C"; the other text fields
\* vary over A/a and B/b, with an absent location and an absent event_type;
\* two records on 2024-03-15 and three on 2024-03-16
ListPool ==
    { Ev(1, <<98>>, <<66>>, <<97>>, <<65>>, <<97>>, <<65>>, <<2024, 3, 14>>),
      Ev(2, <<65, 98>>, <<97>>, Null, <<97>>, <<65>>, <<98>>, <<2024, 3, 15>>),
      Ev(3, <<97, 66>>, <<65>>, <<66>>, <<66>>, <<97>>, Null, <<2024, 3, 15>>),
      Ev(4, <<66>>, <<98>>, <<65>>, <<98>>, <<66>>, <<97>>, <<2024, 3, 16>>),
      Ev(5, Null, <<97>>, <<98>>, <<65>>, <<98>>, <<66>>, <<2024, 3, 16>>),
      Ev(6, <<67>>, <<66>>, <<98>>, <<66>>, <<65>>, <<65>>, <<2024, 3, 16>>) }

ListSnapshots == Snapshots(ListPool, MaxListEvents)

\* the anchors of the list specification: 2024-03-13 and the days after it
ListDays == DaysFromCivil(2024, 3, 13)..(DaysFromCivil(2024, 3, 13) + ListSpanDays)

InitList ==
    /\ events \in ListSnapshots
    /\ filteredEvents = events
    /\ searchQuery = <<>>
    /\ filters = NoFilters
    /\ effectPending = FALSE
    /\ currentView = "month"
    /\ tzOffset = 0
    /\ currentDate \in Nows(ViewFirstDay, ViewSpanDays)
    /\ LocalDayNumber(currentDate) \in ListDays
    /\ listMounted = FALSE
    /\ sortField = "startDateTime"
    /\ sortDirection = "asc"
    /\ uncaught = renderRaises(currentView, currentDate, filteredEvents, sortField)
    /\ zone = FixedZone(tzOffset)
    /\ exported = NoExport
    /\ loading = FALSE
    /\ error = Null
    /\ fetches = <<>>
    /\ selectedEvent = NoSelection
    /\ isModalOpen = FALSE
    /\ activeElement = "BODY"

NextList ==
    \/ \E view \in Views : handleViewChange(view)
    \/ \E field \in SortFields : handleSort(field)
    \/ \E d \in {-1, 1} : navigateDate(d, ListDays)
    \/ \E date \in clickableDays : handleDayClick(date, ListDays)

SpecList == InitList /\ [][NextList]_vars

---------------------------------------------------------------------------
(* Date in a zone with daylight-saving time *)

\* the zone's UTC offset at an instant
getTimezoneOffset(t) == IF zone.from <= t /\ t < zone.to THEN zone.dst ELSE zone.std

\* the local day number and the local hour of an instant
ZonedDay(t) == (t + getTimezoneOffset(t)) \div 24
ZonedHour(t) == (t + getTimezoneOffset(t)) % 24

\* the instant of local hour h on local day n: the earlier instant of a wall
\* time that occurs twice, the standard-time reading of one that is skipped
ZonedInstant(n, h) ==
    LET w == 24 * n + h
        C == {c \in {w - zone.std, w - zone.dst} : c + getTimezoneOffset(c) = w}
    IN  IF C = {} THEN w - zone.std ELSE MinOf(C)

\* d.setDate(d.getDate() + 1): the same local time on the next local day
setDatePlusOne(d) ==
    IF d.tag = "date" THEN DateObj(ZonedInstant(ZonedDay(d.time) + 1, ZonedHour(d.time)))
    ELSE d

\* [d.getFullYear(), d.getMonth() + 1, d.getDate()]; [NaN, NaN, NaN] of an
\* Invalid Date
NaN == <<0, 0, 0>>
localTriple(d) == IF d.tag = "date" THEN CivilFromDays(ZonedDay(d.time)) ELSE NaN

\* d.toISOString().substr(0, 10).replace(/-/g, ''): the UTC date as YYYYMMDD
toISODigits(d) ==
    LET c == CivilFromDays(d.time \div 24)
    IN  c[1] * 10000 + c[2] * 100 + c[3]

\* 'YYYY-MM-DD'.replace(/-/g, ''): the digits of a date string as a number,
\* any other string as it is
replaceDashes(s) == IF IsISODate(s) THEN s[1] * 10000 + s[2] * 100 + s[3] ELSE s

---------------------------------------------------------------------------
(* utils/export.js *)

\* what a try block yields when a statement of it throws
Thrown == [thrown |-> TRUE]

\* the body of generateGoogleCalendarUrl's try block
googleCalendarUrlBody(event) ==
    IF CallRaises(event.start_date) THEN Thrown
    ELSE LET startDate  == replaceDashes(event.start_date)
             endDateObj == setDatePlusOne(NewDate(event.end_date))
         IN  IF endDateObj.tag # "date" THEN Thrown
             ELSE [thrown |-> FALSE,
                   href |-> "https://calendar.google.com/calendar/render",
                   text |-> event.name,
                   dates |-> [start |-> startDate, end |-> toISODigits(endDateObj)],
                   location |-> OrEmpty(event.location)]

\* generateGoogleCalendarUrl with the exception let through
generateGoogleCalendarUrlNoCatch(event) == googleCalendarUrlBody(event)

\* generateGoogleCalendarUrl: the link, '#' when the body threw
generateGoogleCalendarUrl(event) ==
    IF googleCalendarUrlBody(event).thrown THEN [thrown |-> FALSE, href |-> "#"]
    ELSE googleCalendarUrlBody(event)

\* a line of calendar text
Line(text) == [line |-> text]

\* ics createEvent: { error } when the attributes do not validate (a NaN in
\* start or end; an absent title unless the validation lets it through),
\* else { value }, a VCALENDAR wrapping one VEVENT
createEvent(icsEvent, lenient) ==
    IF \/ icsEvent.start = NaN
       \/ icsEvent.end = NaN
       \/ icsEvent.title = Null /\ ~lenient
    THEN [error |-> "ValidationError", value |-> <<>>]
    ELSE [error |-> "",
          value |-> << Line("BEGIN:VCALENDAR"), Line("VERSION:2.0"), Line("BEGIN:VEVENT"),
                       [line |-> "VEVENT", event |-> icsEvent],
                       Line("END:VEVENT"), Line("END:VCALENDAR") >>]

\* generateICSContent: the record it hands to createEvent
icsEvent(event) ==
    [title |-> event.name, location |-> OrEmpty(event.location),
     start |-> localTriple(NewDate(event.start_date)),
     end |-> localTriple(setDatePlusOne(NewDate(event.end_date))),
     status |-> "CONFIRMED", uid |-> event.id, allDay |-> TRUE]

\* generateICSContent: nothing in its try block throws on a record, so the
\* result is createEvent's
generateICSContent(event, lenient) == createEvent(icsEvent(event), lenient)

\* downloadICSFile without the test of result.error and with the name guarded
downloadICSFileUnchecked(event, lenient) ==
    [alert |-> "", downloaded |-> TRUE, content |-> generateICSContent(event, lenient).value]

\* downloadICSFile: what the user gets
downloadICSFile(event, lenient) ==
    LET result == generateICSContent(event, lenient)
    IN  IF result.error # ""
        THEN [alert |-> "Could not generate the .ics file", downloaded |-> FALSE,
              content |-> <<>>]
        ELSE IF CallRaises(event.name)
        THEN [alert |-> "An unexpected error occurred", downloaded |-> FALSE,
              content |-> <<>>]
        ELSE [alert |-> "", downloaded |-> TRUE, content |-> result.value]

\* value.match with the whole of value taken
veventMatchWhole(value) == value

\* value.match(/BEGIN:VEVENT[\s\S]*?END:VEVENT/): from the first BEGIN:VEVENT
\* to the first END:VEVENT after it, <<>> for no match
veventMatch(value) ==
    LET B == {i \in DOMAIN value : value[i].line = "BEGIN:VEVENT"}
        E == {j \in DOMAIN value : value[j].line = "END:VEVENT" /\ B # {} /\ j > MinOf(B)}
    IN  IF B = {} \/ E = {} THEN <<>> ELSE SubSeq(value, MinOf(B), MinOf(E))

\* the calendar header downloadMultipleEventsICS starts from
icsHeader ==
    << Line("BEGIN:VCALENDAR"), Line("VERSION:2.0"),
       Line("PRODID:-//Youth Sports Calendar//EN"), Line("CALSCALE:GREGORIAN"),
       Line("METHOD:PUBLISH") >>

\* downloadMultipleEventsICS: the forEach, from the content and the count so far
RECURSIVE forEachEvent(_, _, _)
forEachEvent(E, lenient, acc) ==
    IF E = <<>> THEN acc
    ELSE LET result == generateICSContent(Head(E), lenient)
             block  == IF result.error = "" THEN veventMatch(result.value) ELSE <<>>
         IN  forEachEvent(Tail(E), lenient,
                 IF block # <<>>
                 THEN [icsContent |-> acc.icsContent \o block, eventCount |-> acc.eventCount + 1]
                 ELSE acc)

\* downloadMultipleEventsICS without the test of eventCount
downloadMultipleEventsICSNoCheck(E, lenient) ==
    LET done == forEachEvent(E, lenient, [icsContent |-> icsHeader, eventCount |-> 0])
    IN  [alert |-> "", downloaded |-> TRUE,
         content |-> done.icsContent \o <<Line("END:VCALENDAR")>>,
         eventCount |-> done.eventCount]

\* downloadMultipleEventsICS: what the user gets
downloadMultipleEventsICS(E, lenient) ==
    LET done == forEachEvent(E, lenient, [icsContent |-> icsHeader, eventCount |-> 0])
    IN  IF done.eventCount = 0
        THEN [alert |-> "No valid events found", downloaded |-> FALSE, content |-> <<>>,
              eventCount |-> 0]
        ELSE [alert |-> "", downloaded |-> TRUE,
              content |-> done.icsContent \o <<Line("END:VCALENDAR")>>,
              eventCount |-> done.eventCount]

---------------------------------------------------------------------------
(* utils/timezone.js *)

\* date-fns parseISO(`${s}T00:00:00`): local midnight of the date in the zone
parseISOMidnight(s) ==
    IF IsISODate(s) THEN DateObj(ZonedInstant(DaysFromCivil(s[1], s[2], s[3]), 0))
    ELSE InvalidDate

\* date-fns isSameDay on two Date objects: false when either is invalid
isSameDayZoned(a, b) ==
    a.tag = "date" /\ b.tag = "date" /\ ZonedDay(a.time) = ZonedDay(b.time)

\* the zones the timezone argument names
TimezoneRules ==
    [name \in {"UTC", "America/New_York", "Asia/Tokyo"} |->
        CASE name = "UTC"              -> FixedZone(0)
          [] name = "America/New_York" ->
                [std |-> -5, dst |-> -4,
                 from |-> 24 * DaysFromCivil(2024, 3, 10) + 7,
                 to   |-> 24 * DaysFromCivil(2024, 11, 3) + 6]
          [] name = "Asia/Tokyo"       -> FixedZone(9)]

\* formatting with the instant first moved to the named zone
formatInTimeZone(d, timezone) ==
    LET z   == TimezoneRules[timezone]
        off == IF z.from <= d.time /\ d.time < z.to THEN z.dst ELSE z.std
        n   == (d.time + off) \div 24
    IN  [weekday |-> (n + 4) % 7, date |-> CivilFromDays(n)]

\* date-fns-tz format(d, pattern, { timeZone }) for a pattern of weekday,
\* month, day and year: the local fields of d; timeZone only serves the
\* zone tokens, of which these patterns have none
formatTz(d, timezone) ==
    [weekday |-> (ZonedDay(d.time) + 4) % 7, date |-> CivilFromDays(ZonedDay(d.time))]

\* the body of formatEventDateDisplay's try block; format throws a
\* RangeError on an Invalid Date
formatEventDateDisplayBody(startDate, endDate, timezone) ==
    LET startDateObj == parseISOMidnight(startDate)
        endDateObj   == parseISOMidnight(endDate)
    IN  IF ~Truthy(endDate) \/ isSameDayZoned(startDateObj, endDateObj)
        THEN IF startDateObj.tag # "date" THEN Thrown
             ELSE [thrown |-> FALSE, pattern |-> "EEEE, MMM d, yyyy",
                   start |-> formatTz(startDateObj, timezone)]
        ELSE IF startDateObj.tag # "date" \/ endDateObj.tag # "date" THEN Thrown
             ELSE [thrown |-> FALSE, pattern |-> "EEE, MMM d - EEE, MMM d, yyyy",
                   start |-> formatTz(startDateObj, timezone),
                   end |-> formatTz(endDateObj, timezone)]

\* formatEventDateDisplay with the exception let through
formatEventDateDisplayNoCatch(startDate, endDate, timezone) ==
    formatEventDateDisplayBody(startDate, endDate, timezone)

\* formatEventDateDisplay: the text, the start date as given when the body threw
formatEventDateDisplay(startDate, endDate, timezone) ==
    IF formatEventDateDisplayBody(startDate, endDate, timezone).thrown
    THEN [thrown |-> FALSE, pattern |-> "", raw |-> startDate]
    ELSE formatEventDateDisplayBody(startDate, endDate, timezone)

---------------------------------------------------------------------------
(* The export specification: the event modal's and the list's export
   buttons and the date line of an event, in a zone with daylight saving *)

\* a record with an end date of its own
EvSpan(id, name, start, end) ==
    [Ev(id, name, <<65>>, <<66>>, <<65>>, <<65>>, <<65>>, start) EXCEPT !.end_date = end]

\* one-day and two-day events around the daylight-saving shifts of 2024 and
\* the end of the year, an absent name, unparseable and absent dates
ExportPool ==
    { EvSpan(1, <<65, 98>>, <<2024, 3, 15>>, <<2024, 3, 15>>),
      EvSpan(2, <<98>>, <<2024, 3, 10>>, <<2024, 3, 10>>),
      EvSpan(3, Null, <<2024, 3, 15>>, <<2024, 3, 16>>),
      EvSpan(4, <<66, 97>>, BadDateString, <<2024, 3, 15>>),
      EvSpan(5, <<97, 66>>, <<2024, 3, 30>>, <<2024, 3, 31>>),
      EvSpan(6, <<66>>, <<2024, 12, 31>>, <<2024, 12, 31>>),
      EvSpan(7, <<67>>, <<2024, 3, 15>>, NonDateString),
      EvSpan(8, <<99>>, Null, <<2024, 3, 15>>),
      EvSpan(9, <<68>>, <<2024, 3, 15>>, Null),
      EvSpan(10, <<100>>, NonDateString, <<2024, 3, 15>>) }

ExportSnapshots == Snapshots(ExportPool, MaxExportEvents)

\* the browser's zones: UTC, New York, Berlin, Tokyo, with the rules of 2024
Zones ==
    { FixedZone(0), TimezoneRules["America/New_York"],
      [std |-> 1, dst |-> 2,
       from |-> 24 * DaysFromCivil(2024, 3, 31) + 1,
       to   |-> 24 * DaysFromCivil(2024, 10, 27) + 1],
      FixedZone(9) }

\* EventModal: handleGoogleCalendar
handleGoogleCalendar(event) ==
    /\ ~uncaught
    /\ exported' = [op |-> "link", event |-> event, url |-> generateGoogleCalendarUrl(event)]
    /\ uncaught' = generateGoogleCalendarUrl(event).thrown
    /\ UNCHANGED <<filterVars, navVars, listVars, tzOffset, loadVars, modalVars, zone>>

\* EventModal: handleDownloadICS
handleDownloadICS(event, lenient) ==
    /\ ~uncaught
    /\ exported' = [op |-> "single", event |-> event,
                    result |-> generateICSContent(event, lenient),
                    outcome |-> downloadICSFile(event, lenient)]
    /\ UNCHANGED <<filterVars, navVars, listVars, tzOffset, loadVars, modalVars, zone, uncaught>>

\* ListView: handleExportAll
handleExportAll(lenient) ==
    /\ ~uncaught
    /\ listMounted
    /\ exported' = [op |-> "bulk", lenient |-> lenient,
                    outcome |-> downloadMultipleEventsICS(filteredEvents, lenient)]
    /\ UNCHANGED <<filterVars, navVars, listVars, tzOffset, loadVars, modalVars, zone, uncaught>>

\* EventModal, EventTile: the date line of an event
renderEventDate(event, timezone) ==
    /\ ~uncaught
    /\ exported' = [op |-> "format", event |-> event,
                    text |-> formatEventDateDisplay(event.start_date, event.end_date, timezone)]
    /\ uncaught' = formatEventDateDisplay(event.start_date, event.end_date, timezone).thrown
    /\ UNCHANGED <<filterVars, navVars, listVars, tzOffset, loadVars, modalVars, zone>>

InitExport ==
    /\ events \in ExportSnapshots
    /\ filteredEvents = events
    /\ searchQuery = <<>>
    /\ filters = NoFilters
    /\ effectPending = FALSE
    /\ currentView = "list"
    /\ zone \in Zones
    /\ tzOffset = zone.std
    /\ currentDate = 24 * DaysFromCivil(2024, 3, 15) + 12
    /\ listMounted = TRUE
    /\ sortField = "startDateTime"
    /\ sortDirection = "asc"
    /\ uncaught = FALSE
    /\ exported = NoExport
    /\ loading = FALSE
    /\ error = Null
    /\ fetches = <<>>
    /\ selectedEvent = NoSelection
    /\ isModalOpen = FALSE
    /\ activeElement = "BODY"

NextExport ==
    \/ \E i \in DOMAIN filteredEvents : handleGoogleCalendar(filteredEvents[i])
    \/ \E i \in DOMAIN filteredEvents : \E lenient \in BOOLEAN :
           handleDownloadICS(filteredEvents[i], lenient)
    \/ \E lenient \in BOOLEAN : handleExportAll(lenient)
    \/ \E i \in DOMAIN filteredEvents : \E timezone \in DOMAIN TimezoneRules :
           renderEventDate(filteredEvents[i], timezone)

SpecExport == InitExport /\ [][NextExport]_vars

---------------------------------------------------------------------------
(* utils/displayHelpers.js *)

\* white space: space and tab
IsSpace(c) == c \in {32, 9}

\* String.prototype.trim
RECURSIVE trimStart(_)
trimStart(s) == IF s # <<>> /\ IsSpace(Head(s)) THEN trimStart(Tail(s)) ELSE s

RECURSIVE trimEnd(_)
trimEnd(s) ==
    IF s # <<>> /\ IsSpace(s[Len(s)]) THEN trimEnd(SubSeq(s, 1, Len(s) - 1)) ELSE s

trim(s) == trimEnd(trimStart(s))

\* 'N/A', the default of defaultValue
DefaultValue == <<78, 47, 65>>

\* emptyValues: 'null', 'undefined', 'none', 'n/a', 'na', 'not available'
emptyValues ==
    { <<110, 117, 108, 108>>,
      <<117, 110, 100, 101, 102, 105, 110, 101, 100>>,
      <<110, 111, 110, 101>>, <<110, 47, 97>>, <<110, 97>>,
      <<110, 111, 116, 32, 97, 118, 97, 105, 108, 97, 98, 108, 101>> }

\* getDisplayValue
getDisplayValue(value, defaultValue) ==
    IF value = Null \/ value = <<>> THEN defaultValue
    ELSE LET stringValue == trim(value)
         IN  IF toLowerCase(stringValue) \in emptyValues THEN defaultValue
             ELSE stringValue

---------------------------------------------------------------------------
(* utils/websiteValidation.js *)

\* a value that is not a string (a number, an object)
NonStringValue == <<-1>>

\* the first position of s that holds a code of C, 0 when there is none
indexOfAny(s, C) ==
    IF \E i \in DOMAIN s : s[i] \in C THEN MinOf({i \in DOMAIN s : s[i] \in C}) ELSE 0

\* the last position of s that holds code c, 0 when there is none
lastIndexOf(s, c) ==
    IF \E i \in DOMAIN s : s[i] = c THEN -MinOf({-i : i \in {j \in DOMAIN s : s[j] = c}}) ELSE 0

\* s from position i on
substring(s, i) == SubSeq(s, i, Len(s))

startsWith(s, q) == Len(s) >= Len(q) /\ SubSeq(s, 1, Len(q)) = q

IsAlpha(c) == c \in 65..90 \/ c \in 97..122

\* the characters of a URL scheme after its first letter: letters, digits, + - .
IsSchemeChar(c) == IsAlpha(c) \/ c \in 48..57 \/ c \in {43, 45, 46}

\* the slashes that may follow a special scheme: / and \
RECURSIVE skipSlashes(_)
skipSlashes(s) == IF s # <<>> /\ Head(s) \in {47, 92} THEN skipSlashes(Tail(s)) ELSE s

\* new URL(url) without a base: the WHATWG parser on the scheme, the
\* authority and the path; ok is false where the constructor throws
URL(url) ==
    LET colon  == indexOfAny(url, {58})
        scheme == toLowerCase(SubSeq(url, 1, colon - 1))
    IN  IF \/ colon <= 1
           \/ ~IsAlpha(url[1])
           \/ \E i \in 2..(colon - 1) : ~IsSchemeChar(url[i])
        THEN [ok |-> FALSE]
        ELSE IF scheme \notin {<<104, 116, 116, 112>>, <<104, 116, 116, 112, 115>>}
        THEN [ok |-> TRUE, protocol |-> scheme \o <<58>>, hostname |-> <<>>,
              pathname |-> substring(url, colon + 1)]
        ELSE LET rest      == skipSlashes(substring(url, colon + 1))
                 stop      == indexOfAny(rest, {47, 92, 63, 35})
                 authority == IF stop = 0 THEN rest ELSE SubSeq(rest, 1, stop - 1)
                 after     == IF stop = 0 THEN <<>> ELSE substring(rest, stop)
                 hostport  == substring(authority, lastIndexOf(authority, 64) + 1)
                 port      == indexOfAny(hostport, {58})
                 host      == IF port = 0 THEN hostport ELSE SubSeq(hostport, 1, port - 1)
                 query     == indexOfAny(after, {63, 35})
                 path      == IF query = 0 THEN after ELSE SubSeq(after, 1, query - 1)
             IN  IF host = <<>> \/ \E i \in DOMAIN host : IsSpace(host[i])
                 THEN [ok |-> FALSE]
                 ELSE [ok |-> TRUE, protocol |-> scheme \o <<58>>,
                       hostname |-> toLowerCase(host),
                       pathname |-> IF path = <<>> THEN <<47>> ELSE path]

\* placeholderValues: 'n/a', 'na', 'not available', 'none', 'null', 'undefined'
placeholderValues ==
    { <<110, 47, 97>>, <<110, 97>>,
      <<110, 111, 116, 32, 97, 118, 97, 105, 108, 97, 98, 108, 101>>,
      <<110, 111, 110, 101>>, <<110, 117, 108, 108>>,
      <<117, 110, 100, 101, 102, 105, 110, 101, 100>> }

\* internalPatterns: ^/$, ^/#, ^/?, ^javascript:, ^mailto:, ^tel:
internalPatterns(url) ==
    \/ url = <<47>>
    \/ startsWith(url, <<47, 35>>)
    \/ startsWith(url, <<47, 63>>)
    \/ startsWith(url, <<106, 97, 118, 97, 115, 99, 114, 105, 112, 116, 58>>)
    \/ startsWith(url, <<109, 97, 105, 108, 116, 111, 58>>)
    \/ startsWith(url, <<116, 101, 108, 58>>)

\* isValidExternalWebsite without the tests of the hostname
isValidExternalWebsiteAnyHost(url0) ==
    IF url0 = Null \/ url0 = <<>> \/ url0 = NonStringValue THEN FALSE
    ELSE LET url    == trim(url0)
             urlObj == URL(url)
         IN  /\ url # <<>>
             /\ toLowerCase(url) \notin placeholderValues
             /\ urlObj.ok
             /\ urlObj.protocol \in {<<104, 116, 116, 112, 58>>, <<104, 116, 116, 112, 115, 58>>}
             /\ urlObj.pathname # <<47>>

\* isValidExternalWebsite
isValidExternalWebsite(url0) ==
    IF url0 = Null \/ url0 = <<>> \/ url0 = NonStringValue THEN FALSE
    ELSE LET url    == trim(url0)
             urlObj == URL(url)
         IN  /\ url # <<>>
             /\ toLowerCase(url) \notin placeholderValues
             /\ urlObj.ok
             /\ urlObj.protocol \in {<<104, 116, 116, 112, 58>>, <<104, 116, 116, 112, 115, 58>>}
             /\ urlObj.hostname # <<>>
             /\ ~(\/ urlObj.hostname = <<108, 111, 99, 97, 108, 104, 111, 115, 116>>
                  \/ urlObj.hostname = <<49, 50, 55, 46, 48, 46, 48, 46, 49>>
                  \/ includes(urlObj.hostname, <<108, 111, 99, 97, 108, 104, 111, 115, 116>>)
                  \/ urlObj.pathname = <<47>>
                  \/ urlObj.pathname = <<>>)
             /\ ~internalPatterns(url)

---------------------------------------------------------------------------
(* The helpers specification: the cells of a list row that show a field
   through getDisplayValue and a website through isValidExternalWebsite *)

\* raw field values: empty, white space only, the placeholders in several
\* cases and paddings, and proper values
DisplayInputs ==
    {Null} \cup
    { <<>>,   \* ''
      <<32, 32>>,   \* '  '
      <<32, 9>>,   \* ' \t'
      <<78, 47, 65>>,   \* 'N/A'
      <<32, 110, 47, 97, 32>>,   \* ' n/a '
      <<78, 65>>,   \* 'NA'
      <<78, 111, 110, 101>>,   \* 'None'
      <<78, 111, 116, 32, 65, 118, 97, 105, 108, 97, 98, 108, 101>>,   \* 'Not Available'
      <<110, 117, 108, 108>>,   \* 'null'
      <<85, 78, 68, 69, 70, 73, 78, 69, 68>>,   \* 'UNDEFINED'
      <<85, 49, 50>>,   \* 'U12'
      <<32, 85, 49, 50, 32>>,   \* ' U12 '
      <<97, 32, 98>>,   \* 'a b'
      <<110, 97, 98>>,   \* 'nab'
      <<48>> }   \* '0'

\* the defaults a caller passes: 'N/A' and 'TBD'
DisplayDefaults == {DefaultValue, <<84, 66, 68>>}

\* placeholders given as a website
WebsitePlaceholders ==
    { <<78, 47, 65>>,   \* 'N/A'
      <<32, 110, 97, 32>>,   \* ' na '
      <<78, 79, 78, 69>>,   \* 'NONE'
      <<78, 111, 116, 32, 65, 118, 97, 105, 108, 97, 98, 108, 101>>,   \* 'Not Available'
      <<110, 117, 108, 108>>,   \* 'null'
      <<85, 110, 100, 101, 102, 105, 110, 101, 100>> }   \* 'Undefined'

\* strings that are no absolute URL
WebsiteNonUrls ==
    { <<101, 120, 97, 109, 112, 108, 101, 46, 111, 114, 103, 47, 101, 118, 101, 110, 116>>,   \* 'example.org/event'
      <<119, 119, 119, 46, 101, 120, 97, 109, 112, 108, 101, 46, 111, 114, 103>>,   \* 'www.example.org'
      <<47, 101, 118, 101, 110, 116>>,   \* '/event'
      <<47, 47, 101, 120, 97, 109, 112, 108, 101, 46, 111, 114, 103, 47, 101, 118, 101, 110, 116>>,   \* '//example.org/event'
      <<58, 56, 48, 47, 120>>,   \* ':80/x'
      <<49, 104, 116, 116, 112, 58, 47, 47, 101, 120, 97, 109, 112, 108, 101, 46, 111, 114, 103, 47, 120>> }   \* '1http://example.org/x'

\* absolute URLs of other schemes, written out
WebsiteOtherSchemes ==
    { <<106, 97, 118, 97, 115, 99, 114, 105, 112, 116, 58, 97, 108, 101, 114, 116, 40, 49, 41>>,   \* 'javascript:alert(1)'
      <<116, 101, 108, 58, 53, 53, 53>>,   \* 'tel:555'
      <<102, 105, 108, 101, 58, 47, 47, 47, 101, 116, 99, 47, 120>> }   \* 'file:///etc/x'

\* the parts of the composed websites
UrlSchemes == {<<104, 116, 116, 112>>, <<104, 116, 116, 112, 115>>, <<72, 84, 84, 80, 83>>, <<106, 97, 118, 97, 115, 99, 114, 105, 112, 116>>, <<102, 116, 112>>, <<109, 97, 105, 108, 116, 111>>}
UrlSeparators == {<<58, 47, 47>>, <<58>>}
UrlHosts ==
    { <<101, 120, 97, 109, 112, 108, 101, 46, 111, 114, 103>>,   \* 'example.org'
      <<69, 120, 97, 109, 112, 108, 101, 46, 79, 82, 71>>,   \* 'Example.ORG'
      <<108, 111, 99, 97, 108, 104, 111, 115, 116>>,   \* 'localhost'
      <<76, 79, 67, 65, 76, 72, 79, 83, 84>>,   \* 'LOCALHOST'
      <<49, 50, 55, 46, 48, 46, 48, 46, 49>>,   \* '127.0.0.1'
      <<109, 121, 108, 111, 99, 97, 108, 104, 111, 115, 116, 46, 99, 111, 109>> }   \* 'mylocalhost.com'
UrlPaths == {<<>>, <<47>>, <<47, 101, 118, 101, 110, 116>>, <<47, 120, 63, 121>>}
UrlPaddings == {<<>>, <<32>>}

UrlParts ==
    [scheme : UrlSchemes, sep : UrlSeparators, host : UrlHosts \cup {<<>>}, path : UrlPaths,
     pad : UrlPaddings]

\* the website a set of parts spells
composeUrl(parts) ==
    parts.pad \o parts.scheme \o parts.sep \o parts.host \o parts.path \o parts.pad

WebsiteInputs ==
    {Null, <<>>, <<32, 32>>, NonStringValue}
        \cup WebsitePlaceholders \cup WebsiteNonUrls \cup WebsiteOtherSchemes
        \cup {composeUrl(parts) : parts \in UrlParts}

\* ListView: a cell that shows getDisplayValue(value, defaultValue)
renderDisplayCell(value, defaultValue) ==
    /\ ~uncaught
    /\ exported' = [op |-> "display", value |-> value, defaultValue |-> defaultValue,
                    text |-> getDisplayValue(value, defaultValue)]
    /\ UNCHANGED <<filterVars, navVars, listVars, tzOffset, loadVars, modalVars, zone, uncaught>>

\* ListView: the website cell, a link when isValidExternalWebsite(event.website)
renderWebsiteCell(url) ==
    /\ ~uncaught
    /\ exported' = [op |-> "website", url |-> url, valid |-> isValidExternalWebsite(url)]
    /\ UNCHANGED <<filterVars, navVars, listVars, tzOffset, loadVars, modalVars, zone, uncaught>>

InitHelpers ==
    /\ events = <<>>
    /\ filteredEvents = <<>>
    /\ searchQuery = <<>>
    /\ filters = NoFilters
    /\ effectPending = FALSE
    /\ currentView = "list"
    /\ tzOffset = 0
    /\ currentDate = 24 * DaysFromCivil(2024, 3, 15) + 12
    /\ listMounted = TRUE
    /\ sortField = "startDateTime"
    /\ sortDirection = "asc"
    /\ uncaught = FALSE
    /\ zone = FixedZone(0)
    /\ exported = NoExport
    /\ loading = FALSE
    /\ error = Null
    /\ fetches = <<>>
    /\ selectedEvent = NoSelection
    /\ isModalOpen = FALSE
    /\ activeElement = "BODY"

NextHelpers ==
    \/ \E value \in DisplayInputs : \E defaultValue \in DisplayDefaults :
           renderDisplayCell(value, defaultValue)
    \/ \E url \in WebsiteInputs : renderWebsiteCell(url)

SpecHelpers == InitHelpers /\ [][NextHelpers]_vars

---------------------------------------------------------------------------
(* Loading: App.js loadEvents with the fetches it has in flight *)

\* the fetchEvents() calls a page makes at most
MaxFetches == 3
\* the longest snapshot of the load specification
MaxLoadEvents == 2

\* a fetchEvents() call: the snapshot the store answers it with, and whether
\* the promise is pending, fulfilled or rejected
Fetch(data) == [data |-> data, status |-> "pending"]

\* AppContent's render: the spinner, the load-failed panel with its Retry
\* button, or the routes with the views
Screen ==
    IF loading THEN "loading"
    ELSE IF Truthy(error) THEN "error"
    ELSE "views"

\* loadEvents up to its await, called on mount and by the subscription's
\* callback on a change notification: setLoading(true), setError(null), fetchEvents()
loadEventsStart(data) ==
    /\ ~effectPending
    /\ ~uncaught
    /\ Len(fetches) < MaxFetches
    /\ loading' = TRUE
    /\ error' = Null
    /\ fetches' = Append(fetches, Fetch(data))
    /\ UNCHANGED <<filterVars, navVars, listVars, tzOffset, modalVars, exportVars, uncaught>>

\* loadEventsResolved with events left out of the effect's dependencies
loadEventsResolved_NoEffect(i) ==
    /\ ~effectPending
    /\ ~uncaught
    /\ i \in DOMAIN fetches
    /\ fetches[i].status = "pending"
    /\ events' = fetches[i].data
    /\ filteredEvents' = fetches[i].data
    /\ loading' = FALSE
    /\ fetches' = [fetches EXCEPT ![i].status = "fulfilled"]
    /\ UNCHANGED <<searchQuery, filters, effectPending, error>>
    /\ UNCHANGED <<navVars, listVars, tzOffset, modalVars, exportVars, uncaught>>

\* loadEvents from its await on, call i fulfilled: setEvents(data),
\* setFilteredEvents(data), finally setLoading(false), in one render
loadEventsResolved(i) ==
    /\ ~effectPending
    /\ ~uncaught
    /\ i \in DOMAIN fetches
    /\ fetches[i].status = "pending"
    /\ events' = fetches[i].data
    /\ filteredEvents' = fetches[i].data
    /\ effectPending' = TRUE
    /\ loading' = FALSE
    /\ fetches' = [fetches EXCEPT ![i].status = "fulfilled"]
    /\ UNCHANGED <<searchQuery, filters, error>>
    /\ UNCHANGED <<navVars, listVars, tzOffset, modalVars, exportVars, uncaught>>

\* loadEventsRejected without the finally block
loadEventsRejected_NoFinally(i) ==
    /\ ~effectPending
    /\ ~uncaught
    /\ i \in DOMAIN fetches
    /\ fetches[i].status = "pending"
    /\ error' = LoadFailedMessage
    /\ fetches' = [fetches EXCEPT ![i].status = "rejected"]
    /\ UNCHANGED <<filterVars, loading>>
    /\ UNCHANGED <<navVars, listVars, tzOffset, modalVars, exportVars, uncaught>>

\* loadEvents from its await on, call i rejected: setError(message), finally
\* setLoading(false)
loadEventsRejected(i) ==
    /\ ~effectPending
    /\ ~uncaught
    /\ i \in DOMAIN fetches
    /\ fetches[i].status = "pending"
    /\ error' = LoadFailedMessage
    /\ loading' = FALSE
    /\ fetches' = [fetches EXCEPT ![i].status = "rejected"]
    /\ UNCHANGED filterVars
    /\ UNCHANGED <<navVars, listVars, tzOffset, modalVars, exportVars, uncaught>>

\* the Retry button of the load-failed panel, window.location.reload(): the
\* page is constructed again on the same route and calls loadEvents
reloadPage(data) ==
    /\ ~effectPending
    /\ ~uncaught
    /\ Screen = "error"
    /\ events' = <<>>
    /\ filteredEvents' = <<>>
    /\ searchQuery' = <<>>
    /\ filters' = NoFilters
    /\ effectPending' = TRUE
    /\ loading' = TRUE
    /\ error' = Null
    /\ fetches' = <<Fetch(data)>>
    /\ selectedEvent' = NoSelection
    /\ isModalOpen' = FALSE
    /\ activeElement' = "BODY"
    /\ UNCHANGED <<navVars, listVars, tzOffset, exportVars, uncaught>>

\* "Ab" (location "Ba") on 2024-03-14 and "b" (no location) on 2024-03-15
LoadPool == {e \in FilterPool : e.id \in {1, 2}}
LoadSnapshots == Snapshots(LoadPool, MaxLoadEvents)
LoadQueries == {<<>>, <<66, 65>>}

InitLoad ==
    /\ events = <<>>
    /\ filteredEvents = <<>>
    /\ searchQuery = <<>>
    /\ filters = NoFilters
    /\ effectPending = TRUE
    /\ currentView = "month"
    /\ currentDate = 0
    /\ listMounted = FALSE
    /\ sortField = "startDateTime"
    /\ sortDirection = "asc"
    /\ tzOffset = 0
    /\ uncaught = FALSE
    /\ zone = FixedZone(tzOffset)
    /\ exported = NoExport
    /\ loading = TRUE
    /\ error = Null
    /\ fetches \in {<<Fetch(data)>> : data \in LoadSnapshots}
    /\ selectedEvent = NoSelection
    /\ isModalOpen = FALSE
    /\ activeElement = "BODY"

NextLoad ==
    \/ \E data \in LoadSnapshots : loadEventsStart(data)
    \/ \E i \in 1..MaxFetches : loadEventsResolved(i)
    \/ \E i \in 1..MaxFetches : loadEventsRejected(i)
    \/ \E data \in LoadSnapshots : reloadPage(data)
    \/ \E q \in LoadQueries : setSearchQuery(q)
    \/ \E v \in DropdownOptions("sport") \cup {<<>>} : updateFilter("sport", v)
    \/ applyFilters

SpecLoad == InitLoad /\ [][NextLoad]_vars

\* React runs a scheduled effect: applyFilters is not postponed for ever
SpecLoadFair == SpecLoad /\ WF_vars(applyFilters)

---------------------------------------------------------------------------
(* Keyboard shortcuts and the event modal: App.js handleKeydown *)

Keys == {"ArrowLeft", "ArrowRight", "t", "T", "f", "F", "Escape", "a"}
Tags == {"BODY", "INPUT", "TEXTAREA", "SELECT"}

\* the state a key handler reads and writes
KeyState ==
    [currentDate |-> currentDate, isModalOpen |-> isModalOpen,
     selectedEvent |-> selectedEvent, activeElement |-> activeElement]

\* the switch of handleKeydown; 'f' focuses the first text input of the page
shortcut(key, now) ==
    CASE key = "ArrowLeft"  ->
            [KeyState EXCEPT !.currentDate = navigateTarget(currentDate, currentView, -1)]
      [] key = "ArrowRight" ->
            [KeyState EXCEPT !.currentDate = navigateTarget(currentDate, currentView, 1)]
      [] key \in {"t", "T"} -> [KeyState EXCEPT !.currentDate = now]
      [] key \in {"f", "F"} -> [KeyState EXCEPT !.activeElement = "INPUT"]
      [] OTHER              -> KeyState

\* handleKeydown with the test of the modal and of the target left to Escape only
handleKeydownTarget_NoGuard(key, now) ==
    IF key = "Escape" /\ isModalOpen
    THEN [KeyState EXCEPT !.isModalOpen = FALSE, !.selectedEvent = NoSelection]
    ELSE shortcut(key, now)

\* App: handleKeydown(e), the state it leaves; e.target is the focused element
\* and now is what new Date() returns
handleKeydownTarget(key, now) ==
    IF isModalOpen \/ activeElement = "INPUT" \/ activeElement = "TEXTAREA"
    THEN IF key = "Escape" /\ isModalOpen
         THEN [KeyState EXCEPT !.isModalOpen = FALSE, !.selectedEvent = NoSelection]
         ELSE KeyState
    ELSE shortcut(key, now)

\* a keydown event reaches the document's listener
handleKeydown(key, now, Days) ==
    /\ ~uncaught
    /\ ~effectPending
    /\ LocalDayNumber(handleKeydownTarget(key, now).currentDate) \in Days
    /\ currentDate' = handleKeydownTarget(key, now).currentDate
    /\ isModalOpen' = handleKeydownTarget(key, now).isModalOpen
    /\ selectedEvent' = handleKeydownTarget(key, now).selectedEvent
    /\ activeElement' = handleKeydownTarget(key, now).activeElement
    /\ uncaught' = renderRaises(currentView, handleKeydownTarget(key, now).currentDate,
                                filteredEvents, sortField)
    /\ UNCHANGED <<currentView, filterVars, listVars, tzOffset, loadVars, exportVars>>

\* App: openEventModal(event), from a click on an event of a view
openEventModal(event) ==
    /\ ~uncaught
    /\ ~effectPending
    /\ Screen = "views"
    /\ selectedEvent' = Selected(event)
    /\ isModalOpen' = TRUE
    /\ UNCHANGED <<activeElement, filterVars, navVars, listVars, tzOffset, loadVars,
                   exportVars, uncaught>>

\* App: closeEventModal, the modal's onClose
closeEventModal ==
    /\ ~uncaught
    /\ ~effectPending
    /\ isModalOpen
    /\ isModalOpen' = FALSE
    /\ selectedEvent' = NoSelection
    /\ UNCHANGED <<activeElement, filterVars, navVars, listVars, tzOffset, loadVars,
                   exportVars, uncaught>>

\* the user moves the focus to an element with this tag
focusElement(tag) ==
    /\ ~uncaught
    /\ activeElement' = tag
    /\ UNCHANGED <<selectedEvent, isModalOpen, filterVars, navVars, listVars, tzOffset,
                   loadVars, exportVars, uncaught>>

\* "Zeta" on 2024-03-15 and "Beta" the day before
KeyPool == {e \in ViewPool : e.id \in {1, 5}}
KeySnapshots == Snapshots(KeyPool, MaxDayEvents)

InitKeys ==
    /\ events \in KeySnapshots
    /\ filteredEvents = events
    /\ searchQuery = <<>>
    /\ filters = NoFilters
    /\ effectPending = FALSE
    /\ currentView = "month"
    /\ tzOffset \in TzOffsets
    /\ currentDate \in Nows(ViewFirstDay, ViewSpanDays)
    /\ LocalDayNumber(currentDate) \in ViewDays
    /\ listMounted = FALSE
    /\ sortField = "startDateTime"
    /\ sortDirection = "asc"
    /\ uncaught = FALSE
    /\ zone = FixedZone(tzOffset)
    /\ exported = NoExport
    /\ loading = FALSE
    /\ error = Null
    /\ fetches = <<>>
    /\ selectedEvent = NoSelection
    /\ isModalOpen = FALSE
    /\ activeElement = "BODY"

NextKeys ==
    \/ \E key \in Keys : \E now \in Nows(ViewFirstDay, ViewSpanDays) :
           LocalDayNumber(now) \in ViewDays /\ handleKeydown(key, now, ViewDays)
    \/ \E i \in 1..Len(filteredEvents) : openEventModal(filteredEvents[i])
    \/ closeEventModal
    \/ \E tag \in Tags : focusElement(tag)
    \/ \E view \in Views : handleViewChange(view)
    \/ \E d \in {-1, 1} : navigateDate(d, ViewDays)

SpecKeys == InitKeys /\ [][NextKeys]_vars

---------------------------------------------------------------------------
(* The filter contract, stated without the code's string operations *)

\* two character codes are the same letter, whatever their case
SameLetter(c, d) ==
    \/ c = d
    \/ c \in 65..90 /\ d = c + 32
    \/ d \in 65..90 /\ c = d + 32

\* q occurs in s as a substring, ignoring case
CIContains(s, q) ==
    \E i \in 0..(Len(s) - Len(q)) : \A k \in 1..Len(q) : SameLetter(s[i + k], q[k])

\* an absent field reads as the empty string
FieldText(v) == IF v = Null THEN <<>> ELSE v

\* a is b with some elements left out, the others in b's order
RECURSIVE IsSubsequence(_, _)
IsSubsequence(a, b) ==
    IF a = <<>> THEN TRUE
    ELSE IF b = <<>> THEN FALSE
    ELSE IF Head(a) = Head(b) THEN IsSubsequence(Tail(a), Tail(b))
    ELSE IsSubsequence(a, Tail(b))

\* the calendar date <<y, m, d>> a date bound was entered as
BoundDay(bound) == CivilFromDays(bound.time \div 24)

SearchExcludes(e, q) ==
    /\ q # <<>>
    /\ ~CIContains(FieldText(e.name), q)
    /\ ~CIContains(FieldText(e.location), q)
    /\ ~CIContains(FieldText(e.sport), q)

LocationExcludes(e, f) == f.location # <<>> /\ ~CIContains(FieldText(e.location), f.location)

ExactExcludes(e, f, key, field) == f[key] # <<>> /\ e[field] # f[key]

\* rules 1 to 4 of the filter contract
TextExcluded(e, q, f) ==
    \/ SearchExcludes(e, q)
    \/ ExactExcludes(e, f, "sport", "sport")
    \/ LocationExcludes(e, f)
    \/ ExactExcludes(e, f, "age", "age")
    \/ ExactExcludes(e, f, "gender", "gender")
    \/ ExactExcludes(e, f, "eventType", "event_type")

StartExcludes(e, f) ==
    /\ f.dateRange.start.tag = "date"
    /\ IsISODate(e.start_date)
    /\ LexCmp(e.start_date, BoundDay(f.dateRange.start)) < 0

EndExcludes(e, f) ==
    /\ f.dateRange.end.tag = "date"
    /\ IsISODate(e.start_date)
    /\ LexCmp(e.start_date, BoundDay(f.dateRange.end)) > 0

\* rules 5 and 6 of the filter contract
DateExcluded(e, f) == StartExcludes(e, f) \/ EndExcludes(e, f)

\* the constraints that are set
ActiveConstraints(q, f) ==
    {k \in {"sport", "location", "age", "gender", "eventType"} : f[k] # <<>>}
        \cup (IF q # <<>> THEN {"query"} ELSE {})
        \cup {b \in {"start", "end"} : f.dateRange[b].tag # "null"}

Visible(e) == \E i \in 1..Len(filteredEvents) : filteredEvents[i] = e

HasAbsentField(e) == e.name = Null \/ e.location = Null \/ e.sport = Null

\* C1: with an empty query and unconstrained criteria the filter returns the
\* snapshot itself, every record in its place
C1_FilterIdentity ==
    /\ filterEvents(events, <<>>, NoFilters) = events
    /\ (~effectPending /\ ~uncaught /\ ActiveConstraints(searchQuery, filters) = {})
           => filteredEvents = events

C1_Witness ==
    /\ ~effectPending /\ ~uncaught
    /\ ActiveConstraints(searchQuery, filters) = {}
    /\ Len(events) >= 2
    /\ \E i \in 1..Len(events) : HasAbsentField(events[i])
    /\ filteredEvents = events

\* C2: under a single constraint the visible set is a sub-sequence of the
\* snapshot, each visible record satisfies the constraint, and filtering the
\* visible set again returns it
C2_SingleConstraint ==
    (~effectPending /\ ~uncaught /\ Cardinality(ActiveConstraints(searchQuery, filters)) = 1)
        => /\ IsSubsequence(filteredEvents, events)
           /\ \A i \in 1..Len(filteredEvents) :
                  /\ ~TextExcluded(filteredEvents[i], searchQuery, filters)
                  /\ ~DateExcluded(filteredEvents[i], filters)
           /\ filterEvents(filteredEvents, searchQuery, filters) = filteredEvents

C2_Witness ==
    /\ ~effectPending /\ ~uncaught
    /\ Cardinality(ActiveConstraints(searchQuery, filters)) = 1
    /\ Len(events) >= 2
    /\ Len(filteredEvents) = 1
    /\ filteredEvents[1] = events[2]

\* C3: with no date range, a record is visible exactly when none of the
\* search, sport, location, age, gender and event-type rules excludes it; with
\* a date range no visible record is excluded by one of them
C3_TextRules ==
    (~effectPending /\ ~uncaught)
        => /\ \A i \in 1..Len(filteredEvents) :
                  ~TextExcluded(filteredEvents[i], searchQuery, filters)
           /\ (filters.dateRange = NoFilters.dateRange)
                  => \A i \in 1..Len(events) :
                         Visible(events[i]) <=> ~TextExcluded(events[i], searchQuery, filters)

C3_Witness ==
    /\ ~effectPending /\ ~uncaught
    /\ filters.dateRange = NoFilters.dateRange
    /\ searchQuery # <<>> /\ filters.location # <<>> /\ filters.sport # <<>>
    /\ Len(events) >= 2
    /\ Len(filteredEvents) = 1
    /\ LocationExcludes(events[2], filters)

\* C4: with a date range set, a record is visible exactly when no text rule
\* excludes it, its start_date is not before the start bound and not after the
\* end bound; a start_date equal to a bound is kept
C4_DateRules ==
    (~effectPending /\ ~uncaught
        /\ (filters.dateRange.start.tag # "null" \/ filters.dateRange.end.tag # "null"))
        => \A i \in 1..Len(events) :
               Visible(events[i]) <=>
                   /\ ~TextExcluded(events[i], searchQuery, filters)
                   /\ ~DateExcluded(events[i], filters)

C4_Witness ==
    /\ ~effectPending /\ ~uncaught
    /\ filters.dateRange.start.tag = "date" /\ filters.dateRange.end.tag = "null"
    /\ Len(events) >= 2
    /\ StartExcludes(events[1], filters) /\ ~Visible(events[1])
    /\ events[2].start_date = BoundDay(filters.dateRange.start) /\ Visible(events[2])

\* C5: the filter raises on no record; an absent name, location or sport is
\* decided as the empty string would be; with only date bounds set a record
\* whose start_date does not parse is visible
C5_NeverRaises ==
    /\ ~uncaught
    /\ \A i \in 1..Len(events) :
           LET e == events[i]
               blank == [e EXCEPT !.name = FieldText(e.name),
                                  !.location = FieldText(e.location),
                                  !.sport = FieldText(e.sport)]
           IN  /\ ~filterRaises(e, searchQuery, filters)
               /\ keepsEvent(e, searchQuery, filters)
                      = (~TextExcluded(blank, searchQuery, filters) /\ ~DateExcluded(blank, filters))
    /\ (~effectPending /\ ActiveConstraints(searchQuery, filters) \subseteq {"start", "end"})
           => \A i \in 1..Len(events) : ~IsISODate(events[i].start_date) => Visible(events[i])

C5_Witness ==
    /\ ~effectPending /\ ~uncaught
    /\ ActiveConstraints(searchQuery, filters) = {"start", "end"}
    /\ \E i \in 1..Len(events) : ~IsISODate(events[i].start_date) /\ Visible(events[i])
    /\ \E i \in 1..Len(events) : events[i].sport = Null /\ events[i].name = Null

---------------------------------------------------------------------------
(* The projection contract, stated on calendar dates *)

\* the calendar date <<y, m, d>> of the local day an instant falls on
LocalDate(t) == CivilFromDays(LocalDayNumber(t))

\* the weekday of a day number, 0 for Sunday: 2024-03-10 was a Sunday
WeekdayOf(n) == (n - DaysFromCivil(2024, 3, 10)) % 7

\* the Sunday on or before day number n
SundayOnOrBefore(n) == CHOOSE k \in (n - 6)..n : WeekdayOf(k) = 0

UpperCase(s) == [i \in 1..Len(s) |-> IF s[i] \in 97..122 THEN s[i] - 32 ELSE s[i]]

\* a comes no later than b in alphabetical order, case ignored
CILeq(a, b) == LexCmp(UpperCase(a), UpperCase(b)) <= 0

IsCISorted(s) == \A i \in 1..(Len(s) - 1) : CILeq(s[i].name, s[i + 1].name)

\* the records of E that start on calendar date c, in E's order
OnDay(E, c) == SelectSeq(E, LAMBDA e : e.start_date = c)

Names(s) == [i \in 1..Len(s) |-> s[i].name]

\* shown holds the first k of all's records in case-insensitive name order
IsFirstOfSorted(shown, all, k) ==
    /\ Len(shown) = (IF Len(all) < k THEN Len(all) ELSE k)
    /\ IsCISorted(shown)
    /\ Range(shown) \subseteq Range(all)
    /\ \A i, j \in 1..Len(shown) : i # j => shown[i] # shown[j]
    /\ \A e \in Range(all) \ Range(shown) : \A x \in Range(shown) : CILeq(x.name, e.name)

C7_MonthGrid ==
    LET G     == flatten(renderMonthView(currentDate))
        c     == LocalDate(currentDate)
        first == DaysFromCivil(c[1], c[2], 1)
        last  == DaysFromCivil(c[1], c[2], DaysInMonth(c[1], c[2]))
        dn(i) == LocalDayNumber(G[i])
    IN  /\ Len(G) > 0
        /\ Len(G) % 7 = 0
        /\ \A i \in 1..Len(G) : LocalHour(G[i]) = 0
        /\ WeekdayOf(dn(1)) = 0 /\ dn(1) <= first /\ first - dn(1) < 7
        /\ WeekdayOf(dn(Len(G))) = 6 /\ dn(Len(G)) >= last /\ dn(Len(G)) - last < 7
        /\ \A i \in 1..(Len(G) - 1) : dn(i + 1) = dn(i) + 1
        /\ \A d \in first..last : Cardinality({i \in 1..Len(G) : dn(i) = d}) = 1

\* a six-row grid for an anchor on the 31st, away from midnight
C7_Witness ==
    /\ Len(flatten(renderMonthView(currentDate))) = 42
    /\ LocalDate(currentDate)[3] = 31
    /\ LocalHour(currentDate) # 0
    /\ currentView = "month"

\* C8: the week view is the 7 days from the Sunday on or before the anchor;
\* each column shows the first 2 of the day's events in case-insensitive name
\* order, whatever their number, and "+(count - 2) more" when there are more
C8_WeekView ==
    currentView = "week" =>
        LET W == renderWeekView(currentDate, filteredEvents)
        IN  /\ Len(W) = 7
            /\ LocalDayNumber(W[1].day) = SundayOnOrBefore(LocalDayNumber(currentDate))
            /\ \A i \in 1..7 :
                   LET all == OnDay(filteredEvents, LocalDate(W[i].day))
                   IN  /\ LocalDayNumber(W[i].day) = LocalDayNumber(W[1].day) + i - 1
                       /\ IsFirstOfSorted(W[i].shown, all, 2)
                       /\ W[i].more = (IF Len(all) > 2 THEN <<Len(all) - 2>> ELSE <<>>)

\* Zeta, alpha, Mid on one day show as alpha, Mid and "+1 more"
C8_Witness ==
    /\ currentView = "week"
    /\ getDay(currentDate) # 0
    /\ \E i \in 1..7 :
           LET col == renderWeekView(currentDate, filteredEvents)[i]
           IN  /\ Names(OnDay(filteredEvents, LocalDate(col.day)))
                      = << <<90, 101, 116, 97>>, <<97, 108, 112, 104, 97>>, <<77, 105, 100>> >>
               /\ Names(col.shown) = << <<97, 108, 112, 104, 97>>, <<77, 105, 100>> >>
               /\ col.more = <<1>>

\* C9: the day view lists every visible event that starts on the anchor's
\* day, whatever the anchor's hour, in case-insensitive name order
C9_DayView ==
    currentView = "day" =>
        LET L   == renderDayView(currentDate, filteredEvents)
            all == OnDay(filteredEvents, LocalDate(currentDate))
        IN  /\ Len(L) = Len(all)
            /\ Range(L) = Range(all)
            /\ IsCISorted(L)

\* Zeta, Alpha, Mid list as Alpha, Mid, Zeta for an anchor away from midnight
C9_Witness ==
    /\ currentView = "day"
    /\ LocalHour(currentDate) # 0
    /\ Names(OnDay(filteredEvents, LocalDate(currentDate)))
           = << <<90, 101, 116, 97>>, <<65, 108, 112, 104, 97>>, <<77, 105, 100>> >>
    /\ Names(renderDayView(currentDate, filteredEvents))
           = << <<65, 108, 112, 104, 97>>, <<77, 105, 100>>, <<90, 101, 116, 97>> >>

\* C10: the list view starts sorted by start date ascending; selecting the
\* active field flips the direction and keeps the field, selecting another
\* field makes it the active one, ascending
C10_SortState ==
    /\ (sortField = "startDateTime" /\ sortDirection = "asc")
    /\ [][\A field \in SortFields :
            handleSort(field) =>
                /\ sortField' = field
                /\ sortDirection' = (IF field # sortField THEN "asc"
                                     ELSE IF sortDirection = "asc" THEN "desc" ELSE "asc")]_vars

\* the name column selected twice
C10_Witness ==
    /\ listMounted
    /\ sortField = "name"
    /\ sortDirection = "desc"

---------------------------------------------------------------------------
(* The list contract, stated on the records' fields *)

\* the text of the field a column sorts by, an absent one read as ''
ColumnText(e, field) ==
    CASE field = "name"      -> FieldText(e.name)
      [] field = "sport"     -> FieldText(e.sport)
      [] field = "location"  -> FieldText(e.location)
      [] field = "age"       -> FieldText(e.age)
      [] field = "gender"    -> FieldText(e.gender)
      [] field = "eventType" -> FieldText(e.event_type)

\* a ranks no later than b on the column: by day for the start date, in
\* alphabetical order with case ignored for the text columns
ColumnLeq(a, b, field) ==
    IF field = "startDateTime"
    THEN DaysFromCivil(a.start_date[1], a.start_date[2], a.start_date[3])
             <= DaysFromCivil(b.start_date[1], b.start_date[2], b.start_date[3])
    ELSE CILeq(ColumnText(a, field), ColumnText(b, field))

\* the position of record e in E
PositionIn(E, e) == CHOOSE i \in DOMAIN E : E[i] = e

\* S is E ordered by the column in the direction, ties in E's order
IsOrderedBy(S, E, field, direction) ==
    /\ Len(S) = Len(E)
    /\ Range(S) = Range(E)
    /\ \A i, j \in DOMAIN S : i < j =>
           /\ IF direction = "asc" THEN ColumnLeq(S[i], S[j], field)
                                   ELSE ColumnLeq(S[j], S[i], field)
           /\ (ColumnLeq(S[i], S[j], field) /\ ColumnLeq(S[j], S[i], field))
                  => PositionIn(E, S[i]) < PositionIn(E, S[j])

\* C11: the list view shows every visible record once, ordered by the active
\* column (by day for the start date, alphabetically with case ignored for the
\* text columns), reversed for desc, records equal on the column in input order
C11_ListOrder ==
    (listMounted /\ ~uncaught) =>
        IsOrderedBy(sortedEvents(filteredEvents, sortField, sortDirection),
                    filteredEvents, sortField, sortDirection)

\* "Ab", "aB", "B" by name, descending: "B" first, then "Ab" and "aB" as they came
C11_Witness ==
    /\ listMounted /\ ~uncaught
    /\ sortField = "name" /\ sortDirection = "desc"
    /\ Len(filteredEvents) = 3
    /\ Names(filteredEvents) = << <<65, 98>>, <<97, 66>>, <<66>> >>
    /\ Names(sortedEvents(filteredEvents, sortField, sortDirection))
           = << <<66>>, <<65, 98>>, <<97, 66>> >>

\* C12: no sort raises on a record that lacks the field sorted by: the list
\* view under any active column and the name sorts of the month, week and
\* day views render, the absent field ordered as the empty string
C12_SortNeverRaises ==
    /\ ~uncaught
    /\ ~renderRaises(currentView, currentDate, filteredEvents, sortField)

---------------------------------------------------------------------------
(* The export contract, stated on calendar dates *)

\* the calendar date after c
NextDate(c) == CivilFromDays(DaysFromCivil(c[1], c[2], c[3]) + 1)

\* c written YYYYMMDD
Digits(c) == c[1] * 10000 + c[2] * 100 + c[3]

\* both dates of the record are calendar dates, the end not before the start
HasValidSpan(e) ==
    /\ IsISODate(e.start_date)
    /\ IsISODate(e.end_date)
    /\ DaysFromCivil(e.end_date[1], e.end_date[2], e.end_date[3])
           >= DaysFromCivil(e.start_date[1], e.start_date[2], e.start_date[3])

\* the records of E whose single-event serialization succeeds
Serialized(E, lenient) ==
    SelectSeq(E, LAMBDA e : generateICSContent(e, lenient).error = "")

\* the positions of the lines of a document that read text
LinesAt(doc, text) == {i \in DOMAIN doc : doc[i].line = text}

\* the uids of the event lines of a document, in order
Uids(doc) ==
    LET body == SelectSeq(doc, LAMBDA l : l.line = "VEVENT")
    IN  [i \in DOMAIN body |-> body[i].event.uid]

\* C13: the bulk export skips the events whose serialization fails and goes
\* on: the count is the number of events that serialized, and the document
\* is one VCALENDAR header, one VEVENT block for each of them in input
\* order, and one END:VCALENDAR
C13_BulkSkipsFailures ==
    exported.op = "bulk" =>
        LET ok  == Serialized(filteredEvents, exported.lenient)
            doc == exported.outcome.content
        IN  /\ ~uncaught
            /\ exported.outcome.eventCount = Len(ok)
            /\ exported.outcome.downloaded =>
                   /\ LinesAt(doc, "BEGIN:VCALENDAR") = {1}
                   /\ LinesAt(doc, "END:VCALENDAR") = {Len(doc)}
                   /\ Cardinality(LinesAt(doc, "BEGIN:VEVENT")) = Len(ok)
                   /\ Cardinality(LinesAt(doc, "END:VEVENT")) = Len(ok)
                   /\ \A i \in LinesAt(doc, "BEGIN:VEVENT") :
                          doc[i + 1].line = "VEVENT" /\ doc[i + 2].line = "END:VEVENT"
                   /\ Uids(doc) = [i \in DOMAIN ok |-> ok[i].id]

\* two events, the first failing: one block, that of the second
C13_Witness ==
    /\ exported.op = "bulk"
    /\ Len(filteredEvents) = 2
    /\ generateICSContent(filteredEvents[1], exported.lenient).error # ""
    /\ exported.outcome.downloaded
    /\ exported.outcome.eventCount = 1
    /\ Uids(exported.outcome.content) = <<filteredEvents[2].id>>

\* C14: with no event serialized (an empty list, or every event failing) the
\* bulk export produces no file and signals "no valid events"; with one or
\* more it produces the file and signals nothing
C14_NoValidEvents ==
    exported.op = "bulk" =>
        IF Len(Serialized(filteredEvents, exported.lenient)) = 0
        THEN /\ ~exported.outcome.downloaded
             /\ exported.outcome.content = <<>>
             /\ exported.outcome.alert = "No valid events found"
        ELSE /\ exported.outcome.downloaded
             /\ exported.outcome.alert = ""

\* two events, both failing
C14_Witness ==
    /\ exported.op = "bulk"
    /\ Len(filteredEvents) = 2
    /\ ~exported.outcome.downloaded
    /\ exported.outcome.alert = "No valid events found"

\* C15: for an event with valid dates, in every zone and on every date, the
\* link's dates are the start date as YYYYMMDD and the day after the end date
\* as YYYYMMDD
C15_LinkDates ==
    (exported.op = "link" /\ HasValidSpan(exported.event)) =>
        /\ exported.url.href # "#"
        /\ exported.url.dates = [start |-> Digits(exported.event.start_date),
                                 end |-> Digits(NextDate(exported.event.end_date))]

\* C16: generateGoogleCalendarUrl raises on no record and returns a link;
\* whenever building the link fails the link is exactly '#'
C16_LinkNeverRaises ==
    /\ exported.op \in {"none", "link"} => ~uncaught
    /\ exported.op = "link" =>
           /\ ~exported.url.thrown
           /\ googleCalendarUrlBody(exported.event).thrown
                  => exported.url = [thrown |-> FALSE, href |-> "#"]
           /\ (exported.event.start_date = Null \/ NewDate(exported.event.end_date).tag # "date")
                  => exported.url.href = "#"

\* a record with an unparseable end_date: the link is '#'
C16_Witness ==
    /\ exported.op = "link"
    /\ ~uncaught
    /\ exported.url.href = "#"
    /\ exported.event.end_date = NonDateString

\* C17: for an event with valid dates, in every zone, the record handed to
\* the serializer has the start date as its start triple, the day after the
\* end date as its end triple, status CONFIRMED and allDay true
C17_IcsTriples ==
    (exported.op = "single" /\ HasValidSpan(exported.event)) =>
        /\ icsEvent(exported.event).start = exported.event.start_date
        /\ icsEvent(exported.event).end = NextDate(exported.event.end_date)
        /\ icsEvent(exported.event).status = "CONFIRMED"
        /\ icsEvent(exported.event).allDay

\* C18: generateICSContent raises on no record; a record with an unparseable
\* date gets a result tagged as an error with a message; whenever the result
\* is an error, and whenever the name is absent, the single-event download
\* produces no file and alerts the user
C18_SingleNeverRaises ==
    exported.op = "single" =>
        /\ ~uncaught
        /\ (NewDate(exported.event.start_date).tag # "date"
                \/ NewDate(exported.event.end_date).tag # "date")
               => exported.result.error # ""
        /\ (exported.result.error # "" \/ exported.event.name = Null)
               => /\ ~exported.outcome.downloaded
                  /\ exported.outcome.content = <<>>
                  /\ exported.outcome.alert # ""
        /\ exported.outcome.downloaded => exported.outcome.content = exported.result.value

\* an unparseable start date: a tagged error, no file, an alert
C18_Witness ==
    /\ exported.op = "single"
    /\ exported.event.start_date = NonDateString
    /\ exported.result.error # ""
    /\ ~exported.outcome.downloaded
    /\ exported.outcome.alert # ""

\* C19: for parseable dates, formatEventDateDisplay gives the single-date
\* form exactly when the end is absent or the same calendar day as the start,
\* and the range form otherwise; the weekdays and dates shown are those of
\* the stored dates, in every zone and for every timezone argument
C19_DateDisplay ==
    (/\ exported.op = "format"
     /\ IsISODate(exported.event.start_date)
     /\ exported.event.end_date = Null \/ IsISODate(exported.event.end_date)) =>
        LET s == exported.event.start_date
            e == exported.event.end_date
            shown(c) == [weekday |-> WeekdayOf(DaysFromCivil(c[1], c[2], c[3])), date |-> c]
        IN  IF e = Null \/ e = s
            THEN exported.text = [thrown |-> FALSE, pattern |-> "EEEE, MMM d, yyyy",
                                  start |-> shown(s)]
            ELSE exported.text = [thrown |-> FALSE, pattern |-> "EEE, MMM d - EEE, MMM d, yyyy",
                                  start |-> shown(s), end |-> shown(e)]

\* a two-day event over a daylight-saving shift, shown as a range
C19_Witness ==
    /\ exported.op = "format"
    /\ exported.event.start_date = <<2024, 3, 30>>
    /\ exported.event.end_date = <<2024, 3, 31>>
    /\ zone.std # zone.dst
    /\ exported.text.pattern = "EEE, MMM d - EEE, MMM d, yyyy"
    /\ exported.text.end.weekday = 0

\* C20: formatEventDateDisplay raises on no input; when the start date or a
\* given end date does not parse it returns the start date as it was given
C20_DisplayNeverRaises ==
    exported.op = "format" =>
        /\ ~uncaught
        /\ ~exported.text.thrown
        /\ (\/ ~IsISODate(exported.event.start_date)
            \/ Truthy(exported.event.end_date) /\ ~IsISODate(exported.event.end_date))
               => exported.text = [thrown |-> FALSE, pattern |-> "",
                                   raw |-> exported.event.start_date]

\* an unparseable end date after a good start date: the start date comes back
C20_Witness ==
    /\ exported.op = "format"
    /\ ~uncaught
    /\ exported.event.start_date = <<2024, 3, 15>>
    /\ exported.event.end_date = NonDateString
    /\ exported.text.pattern = ""
    /\ exported.text.raw = <<2024, 3, 15>>

---------------------------------------------------------------------------
(* The helpers contract, stated on the characters of the value *)

\* the positions of s that hold no white space
InkAt(s) == {i \in DOMAIN s : s[i] \notin {32, 9}}

\* s without the white space before its first and after its last other character
Stripped(s) ==
    IF InkAt(s) = {} THEN <<>>
    ELSE SubSeq(s, MinOf(InkAt(s)), CHOOSE i \in InkAt(s) : \A j \in InkAt(s) : j <= i)

\* two strings are the same up to the case of their letters
SameText(a, b) == Len(a) = Len(b) /\ \A i \in DOMAIN a : SameLetter(a[i], b[i])

\* the placeholders: null, undefined, none, n/a, na, not available
PlaceholderWords ==
    { <<110, 117, 108, 108>>, <<117, 110, 100, 101, 102, 105, 110, 101, 100>>,
      <<110, 111, 110, 101>>, <<110, 47, 97>>, <<110, 97>>,
      <<110, 111, 116, 32, 97, 118, 97, 105, 108, 97, 98, 108, 101>> }

\* s reads, white space around it and case aside, as one of the placeholders
IsPlaceholder(s) == \E w \in PlaceholderWords : SameText(Stripped(s), w)

\* C21: getDisplayValue returns the default for a value that is absent,
\* empty once trimmed (white space only included) or one of null, undefined,
\* none, n/a, na, not available in any case, and the trimmed value otherwise
C21_DisplayValue ==
    exported.op = "display" =>
        exported.text =
            (IF \/ exported.value = Null
                \/ Stripped(exported.value) = <<>>
                \/ IsPlaceholder(exported.value)
             THEN exported.defaultValue
             ELSE Stripped(exported.value))

IsHttp(parts) == SameText(parts.scheme, <<104, 116, 116, 112>>) \/ SameText(parts.scheme, <<104, 116, 116, 112, 115>>)

\* the host is localhost, contains localhost or is 127.0.0.1
IsLocalHost(parts) ==
    \/ CIContains(parts.host, <<108, 111, 99, 97, 108, 104, 111, 115, 116>>)
    \/ parts.host = <<49, 50, 55, 46, 48, 46, 48, 46, 49>>

\* C22: isValidExternalWebsite is false for a value that is no string or is
\* empty, for a placeholder in any case, for a string that is no absolute
\* URL, for a URL of a scheme other than http and https and for a URL whose
\* host is or contains localhost or is 127.0.0.1; it is true for an http(s)
\* URL with an external host and a path other than the root
C22_ExternalWebsite ==
    exported.op = "website" =>
        LET url == exported.url
        IN  /\ (url \in {Null, NonStringValue} \/ Stripped(url) = <<>>) => ~exported.valid
            /\ (url \notin {Null, NonStringValue} /\ IsPlaceholder(url)) => ~exported.valid
            /\ url \in WebsiteNonUrls \cup WebsiteOtherSchemes => ~exported.valid
            /\ \A parts \in UrlParts : composeUrl(parts) = url =>
                   /\ ~IsHttp(parts) => ~exported.valid
                   /\ (parts.host # <<>> /\ IsLocalHost(parts)) => ~exported.valid
                   /\ (/\ IsHttp(parts)
                       /\ parts.host # <<>> /\ ~IsLocalHost(parts)
                       /\ parts.path \notin {<<>>, <<47>>}) => exported.valid

\* ' https://Example.ORG/event ' is accepted
C22_Witness ==
    /\ exported.op = "website"
    /\ exported.valid
    /\ exported.url = <<32>> \o <<104, 116, 116, 112, 115, 58, 47, 47, 69, 120, 97, 109, 112, 108, 101, 46, 79, 82, 71, 47, 101, 118, 101, 110, 116>> \o <<32>>

---------------------------------------------------------------------------
(* The loading contract *)

InFlight == {i \in DOMAIN fetches : fetches[i].status = "pending"}

\* what the filter contract keeps of a snapshot, in the snapshot's order
Kept(E, q, f) == SelectSeq(E, LAMBDA e : ~TextExcluded(e, q, f) /\ ~DateExcluded(e, f))

\* C23: once every fetch has been answered, the snapshot held is the one the
\* most recently started fetch returned, in whatever order they were answered
C23_LatestFetchWins ==
    (fetches # <<>> /\ \A i \in DOMAIN fetches : fetches[i].status = "fulfilled")
        => events = fetches[Len(fetches)].data

\* C24: a change of the snapshot, the query or the criteria schedules the
\* filter; the scheduled filter runs; and once it has run the visible set is
\* what the contract keeps of the latest snapshot under the latest query and
\* criteria
C24_Recomputed ==
    /\ [][(events' # events \/ searchQuery' # searchQuery \/ filters' # filters)
              => effectPending']_vars
    /\ [](~effectPending => filteredEvents = Kept(events, searchQuery, filters))
    /\ (effectPending ~> ~effectPending)

\* a reload answered under an active query, filtered again
C24_Witness ==
    /\ ~effectPending
    /\ searchQuery # <<>>
    /\ Len(fetches) >= 2
    /\ fetches[Len(fetches)].status = "fulfilled"
    /\ events = fetches[Len(fetches)].data
    /\ Len(events) = 2
    /\ Len(filteredEvents) = 1

\* C25: a fetch that fails leaves the message set and the loading flag
\* cleared, so that the load-failed panel with its retry button is what is
\* rendered, and starts no fetch
C25_LoadFailed ==
    [][\A i \in DOMAIN fetches :
           (fetches[i].status = "pending" /\ i \in DOMAIN fetches'
                /\ fetches'[i].status = "rejected")
               => /\ error' = LoadFailedMessage
                  /\ ~loading'
                  /\ Screen' = "error"
                  /\ Len(fetches') = Len(fetches)
                  /\ events' = events]_vars

\* the reload of a held snapshot has failed
C25_Witness ==
    /\ Screen = "error"
    /\ Len(fetches) >= 2
    /\ fetches[1].status = "fulfilled"
    /\ fetches[Len(fetches)].status = "rejected"
    /\ InFlight = {}
    /\ events # <<>>

\* C26: whenever the views are rendered, no event handed to them is excluded
\* by the current query and criteria
C26_NoUnfilteredRender ==
    Screen = "views" =>
        \A i \in 1..Len(filteredEvents) :
            /\ ~TextExcluded(filteredEvents[i], searchQuery, filters)
            /\ ~DateExcluded(filteredEvents[i], filters)

\* C27: the loading flag is set whenever a fetch is in flight
C27_LoadingWhileInFlight == InFlight # {} => loading

---------------------------------------------------------------------------
(* The navigation contract *)

\* the months from year 0 to the month of the local day an instant falls on
MonthIndex(t) == 12 * LocalDate(t)[1] + LocalDate(t)[2]

\* C28: from every anchor, navigateDate(+1) and navigateDate(-1) lead in month
\* view to the month right after and right before the anchor's, in week view
\* 7 days and in day view 1 day away at the same hour, and nowhere in list
\* view; +1 followed by -1 leads back to the same month, week or day
C28_NavigateDate ==
    \A d \in {-1, 1} :
        LET t    == navigateTarget(currentDate, currentView, d)
            back == navigateTarget(navigateTarget(currentDate, currentView, 1), currentView, -1)
        IN  /\ currentView = "month" =>
                   /\ MonthIndex(t) = MonthIndex(currentDate) + d
                   /\ MonthIndex(back) = MonthIndex(currentDate)
            /\ currentView = "week" =>
                   /\ t = currentDate + 24 * 7 * d
                   /\ startOfWeek(back) = startOfWeek(currentDate)
            /\ currentView = "day" =>
                   /\ t = currentDate + 24 * d
                   /\ LocalDayNumber(back) = LocalDayNumber(currentDate)
            /\ currentView = "list" => t = currentDate

---------------------------------------------------------------------------
(* The small-screen contract *)

\* the record starts in the period the view shows around the anchor
InPeriod(e, view, anchor) ==
    /\ IsISODate(e.start_date)
    /\ LET c   == LocalDate(anchor)
           n   == DaysFromCivil(e.start_date[1], e.start_date[2], e.start_date[3])
           sun == SundayOnOrBefore(LocalDayNumber(anchor))
       IN  CASE view = "month" -> e.start_date[1] = c[1] /\ e.start_date[2] = c[2]
             [] view = "week"  -> n \in sun..(sun + 6)
             [] OTHER          -> e.start_date = c

\* C29: in month, week and day mode the small-screen list holds exactly the
\* visible events that start in the mode's period, each once, in start_date
\* order, whatever the anchor's hour
C29_MobileList ==
    currentView # "list" =>
        LET L == mobileList(currentView, currentDate, filteredEvents)
            P == {i \in 1..Len(filteredEvents) :
                      InPeriod(filteredEvents[i], currentView, currentDate)}
        IN  /\ Len(L) = Cardinality(P)
            /\ Range(L) = {filteredEvents[i] : i \in P}
            /\ \A i, j \in 1..Len(L) :
                   i < j => LexCmp(L[i].start_date, L[j].start_date) <= 0

---------------------------------------------------------------------------
(* The keyboard and modal contract *)

InTextInput == activeElement \in {"INPUT", "TEXTAREA"}

\* C30: with the modal open or the focus in a text input, ArrowLeft,
\* ArrowRight and T leave the anchor where it is; Escape with the modal open
\* closes it and clears the selected event; the modal is open exactly when an
\* event is selected
C30_KeysAndModal ==
    /\ \A now \in Nows(ViewFirstDay, ViewSpanDays) :
           /\ \A key \in {"ArrowLeft", "ArrowRight", "t", "T"} :
                  (isModalOpen \/ InTextInput)
                      => handleKeydownTarget(key, now).currentDate = currentDate
           /\ isModalOpen =>
                  /\ ~handleKeydownTarget("Escape", now).isModalOpen
                  /\ handleKeydownTarget("Escape", now).selectedEvent = NoSelection
    /\ isModalOpen <=> selectedEvent # NoSelection

\* the modal shows the second event while the focus is in the search box, in
\* week view on another day than the page was opened on
C30_Witness ==
    /\ isModalOpen
    /\ activeElement = "INPUT"
    /\ Len(filteredEvents) = 2
    /\ selectedEvent = Selected(filteredEvents[2])
    /\ currentView = "week"
    /\ currentDate \notin Nows(ViewFirstDay, ViewSpanDays)

===========================================================================
